---- MODULE Spec2Model ----
(***************************************************************************)
(* A model of the tile stitching pipeline: StitchWorker (app/worker.py)    *)
(* and the core functions it calls (core/layout.py, core/refine.py,        *)
(* core/match.py, core/preprocess.py, core/seamfill.py).                   *)
(*                                                                         *)
(* Representation.  Floats are fixed point numbers: a translation (dx, dy) *)
(* is held in tenths of a pixel, a scale in thousandths, an angle in       *)
(* tenths of a degree, a correlation response in tenths.  An image is      *)
(* held by its shape and by the provenance of its content, a mask by the   *)
(* set of its pixels that are 255 (occupancy: that are 1).  A canvas pixel *)
(* is <<column, row>>, both from 0.  The results of the OpenCV calls that  *)
(* depend on pixel content (phaseCorrelate, minAreaRect, Canny) are drawn  *)
(* from small sets.                                                        *)
(***************************************************************************)
EXTENDS Integers, Sequences, FiniteSets, TLC

VARIABLES
    pc,          \* position of StitchWorker._run
    cancelFlag,  \* StitchWorker._cancel
    settings,    \* StitchWorker.settings (StitchSettings)
    mode,        \* StitchWorker.mode
    transforms,  \* StitchWorker.transforms: manual overrides keyed "x,y"
    images,      \* the decoded content of the tile files, per grid cell
    phase,       \* what cv2.phaseCorrelate answers on this run's seams
    tiles_info,  \* _run: the sorted TileInfo list
    tiles,       \* _run: Dict[(x, y), TileData]
    idx,         \* _run: index of the per-tile loop in progress
    layout,      \* _run: LayoutResult
    canvas,      \* _run: canvas pixels (content provenance)
    occupancy,   \* _run: occupancy buffer, the pixels that are 1
    gap_mask,    \* _run: gap mask, the pixels that are 255
    signals,     \* what the worker has emitted and written
    stages,      \* history: the stages entered, in order
    calls,       \* history: the calls of refine/blend/inpaint/seam_fill
    probe        \* argument and result of a function applied on its own

vars == <<pc, cancelFlag, settings, mode, transforms, images, phase,
          tiles_info, tiles, idx, layout, canvas, occupancy, gap_mask,
          signals, stages, calls, probe>>

(***************************************************************************)
(* Bounds of the model.                                                    *)
(***************************************************************************)
MaxRow == 2
MaxCol == 2
MaxIter == 2
MaxOverlap == 2

(***************************************************************************)
(* Fixed point units.                                                      *)
(***************************************************************************)
PX == 10
SCALE_ONE == 1000
RESP_ONE == 10
DEG == 10
PCT == 10

Abs(v) == IF v < 0 THEN -v ELSE v
Min(a, b) == IF b < a THEN b ELSE a
Max(a, b) == IF b > a THEN b ELSE a

SetMax(S) == CHOOSE m \in S : \A v \in S : v <= m

\* Python's int() of a float: truncation toward zero (v in tenths).
PyInt(v) == IF v >= 0 THEN v \div PX ELSE -((-v) \div PX)

\* The index set of the Python slice [lo:hi] (lo >= 0 as the composer has
\* it, hi possibly negative) of an axis of length n.
PySliceStop(hi, n) == IF hi < 0 THEN Max(0, hi + n) ELSE Min(hi, n)
PySlice(lo, hi, n) == Min(lo, n) .. (PySliceStop(hi, n) - 1)

\* The same with lo of either sign.
PySliceAny(lo, hi, n) == PySliceStop(lo, n) .. (PySliceStop(hi, n) - 1)

\* cvRound: round half to even, of num/den (den > 0).
RoundDiv(num, den) ==
    LET q == num \div den
        r == num % den
    IN  IF 2 * r < den THEN q
        ELSE IF 2 * r > den THEN q + 1
        ELSE IF q % 2 = 0 THEN q ELSE q + 1

Cells == (1 .. MaxRow) \X (1 .. MaxCol)

CoordLess(a, b) == a[1] < b[1] \/ (a[1] = b[1] /\ a[2] < b[2])

\* tiles.sort(key=lambda t: (t.x, t.y))
RECURSIVE SortedCoords(_)
SortedCoords(S) ==
    IF S = {} THEN <<>>
    ELSE LET m == CHOOSE c \in S : \A d \in S : d = c \/ CoordLess(c, d)
         IN  <<m>> \o SortedCoords(S \ {m})

Range(s) == {s[i] : i \in 1 .. Len(s)}

Pixels(w, h) == (0 .. (w - 1)) \X (0 .. (h - 1))

(***************************************************************************)
(* core/types.py                                                           *)
(***************************************************************************)
\* TileTransform(): the identity.
TileTransform ==
    [dx |-> 0, dy |-> 0, scale_x |-> SCALE_ONE, scale_y |-> SCALE_ONE,
     angle_deg |-> 0, confidence |-> 0]

(***************************************************************************)
(* core/preprocess.py.  A decoded image is [w, h, contours, rect,          *)
(* readable]: the shape its content crops to, whether its mask has a       *)
(* content contour, and the angle cv2.minAreaRect gives for the largest.   *)
(***************************************************************************)
\* An estimate that is normalised but not clamped.
estimate_angle_Unclamped(mask, max_angle) ==
    IF ~mask.contours THEN 0
    ELSE IF mask.rect < -45 * DEG THEN mask.rect + 90 * DEG
    ELSE mask.rect

estimate_angle(mask, max_angle) ==
    IF ~mask.contours THEN 0
    ELSE LET angle == IF mask.rect < -45 * DEG THEN mask.rect + 90 * DEG
                      ELSE mask.rect
         IN  Max(-max_angle, Min(max_angle, angle))

preprocess_tile(info, image, st) ==
    LET angle == estimate_angle([contours |-> image.contours, rect |-> image.rect],
                                st.max_angle)
    IN  [info |-> info, w |-> image.w, h |-> image.h, angle_deg |-> angle,
         rotated |-> (Abs(angle) > 0), matched |-> FALSE, blended |-> FALSE]

(***************************************************************************)
(* core/match.py.  corr is what _phase_corr answers on the two strips:     *)
(* [dx, dy, response].                                                     *)
(***************************************************************************)
\* Width of image[:, -band:] and of image[:, :band] (band >= 0).
TailWidth(w, band) == IF band = 0 THEN w ELSE Min(band, w)
HeadWidth(w, band) == Min(band, w)

\* cv2.phaseCorrelate and cv2.cvtColor raise on strips of different or of
\* empty size.
match_seam_raises(left, right, band) ==
    \/ TailWidth(left.w, band) # HeadWidth(right.w, band)
    \/ HeadWidth(right.w, band) = 0

match_seam_vertical_raises(top, bottom, band) ==
    \/ TailWidth(top.h, band) # HeadWidth(bottom.h, band)
    \/ HeadWidth(bottom.h, band) = 0

\* A match that returns the reported shift as it is.
match_seam_Unclamped(left, right, overlap, band, corr) ==
    [dx |-> corr.dx, dy |-> corr.dy,
     error |-> RESP_ONE - corr.response,
     confidence |-> corr.response]

match_seam(left, right, overlap, band, corr) ==
    [dx |-> Max(-(overlap * PX), Min(overlap * PX, corr.dx)),
     dy |-> Max(-(overlap * PX), Min(overlap * PX, corr.dy)),
     error |-> RESP_ONE - corr.response,
     confidence |-> corr.response]

match_seam_vertical(top, bottom, overlap, band, corr) ==
    [dx |-> Max(-(overlap * PX), Min(overlap * PX, corr.dx)),
     dy |-> Max(-(overlap * PX), Min(overlap * PX, corr.dy)),
     error |-> RESP_ONE - corr.response,
     confidence |-> corr.response]

clamp_scale(scale, max_percent) ==
    LET delta == (max_percent * SCALE_ONE) \div (100 * PCT)
    IN  Max(SCALE_ONE - delta, Min(SCALE_ONE + delta, scale))

scale_transform(transform, scale_x, scale_y, max_percent) ==
    [transform EXCEPT !.scale_x = clamp_scale(scale_x, max_percent),
                      !.scale_y = clamp_scale(scale_y, max_percent)]

(***************************************************************************)
(* core/layout.py                                                          *)
(***************************************************************************)
\* A layout that takes the canvas width from the rows and its height from
\* the columns.
initial_layout_Transposed(ts) ==
    LET max_x == SetMax({ts[c].info[1] : c \in DOMAIN ts})
        max_y == SetMax({ts[c].info[2] : c \in DOMAIN ts})
        tile_w == SetMax({ts[c].w : c \in DOMAIN ts})
        tile_h == SetMax({ts[c].h : c \in DOMAIN ts})
    IN  [placements |->
            [c \in DOMAIN ts |->
                [origin_x |-> (c[2] - 1) * tile_w,
                 origin_y |-> (c[1] - 1) * tile_h,
                 tile_w |-> tile_w, tile_h |-> tile_h,
                 transform |-> TileTransform]],
         canvas_size |-> <<max_x * tile_w, max_y * tile_h>>]

initial_layout(ts) ==
    LET xs == {ts[c].info[1] : c \in DOMAIN ts}
        ys == {ts[c].info[2] : c \in DOMAIN ts}
        max_x == IF xs # {} THEN SetMax(xs) ELSE 0
        max_y == IF ys # {} THEN SetMax(ys) ELSE 0
        tile_w == IF DOMAIN ts # {} THEN SetMax({ts[c].w : c \in DOMAIN ts}) ELSE 0
        tile_h == IF DOMAIN ts # {} THEN SetMax({ts[c].h : c \in DOMAIN ts}) ELSE 0
    IN  [placements |->
            [c \in DOMAIN ts |->
                [origin_x |-> (c[2] - 1) * tile_w,
                 origin_y |-> (c[1] - 1) * tile_h,
                 tile_w |-> tile_w, tile_h |-> tile_h,
                 transform |-> TileTransform]],
         canvas_size |-> <<max_y * tile_w, max_x * tile_h>>]

grid_neighbors(coord) ==
    [left |-> <<coord[1], coord[2] - 1>>, top |-> <<coord[1] - 1, coord[2]>>]

(***************************************************************************)
(* core/refine.py.  ph gives _phase_corr's answer per direction.           *)
(***************************************************************************)
\* The results list of one tile: the left match first, then the top match.
SeamResults(ts, coord, overlap, band, ph) ==
    LET nb == grid_neighbors(coord)
        l == IF nb.left \in DOMAIN ts
             THEN <<match_seam(ts[nb.left], ts[coord], overlap, band, ph.left)>>
             ELSE <<>>
        t == IF nb.top \in DOMAIN ts
             THEN <<match_seam_vertical(ts[nb.top], ts[coord], overlap, band, ph.top)>>
             ELSE <<>>
    IN  l \o t

\* best_error = 1e9
BestErrorStart == 1000000000

\* A selection in which a later result of equal error replaces the best one.
RECURSIVE BestTransform_LastOnTie(_, _, _, _, _)
BestTransform_LastOnTie(results, i, best_error, best_transform, tile) ==
    IF i > Len(results) THEN best_transform
    ELSE IF results[i].error <= best_error
         THEN BestTransform_LastOnTie(results, i + 1, results[i].error,
                  [dx |-> results[i].dx, dy |-> results[i].dy,
                   scale_x |-> SCALE_ONE, scale_y |-> SCALE_ONE,
                   angle_deg |-> tile.angle_deg,
                   confidence |-> results[i].confidence], tile)
         ELSE BestTransform_LastOnTie(results, i + 1, best_error, best_transform, tile)

\* The loop over results: a result replaces the best one only when its
\* error is strictly lower (best_error starts at 1e9).
RECURSIVE BestTransform(_, _, _, _, _)
BestTransform(results, i, best_error, best_transform, tile) ==
    IF i > Len(results) THEN best_transform
    ELSE IF results[i].error < best_error
         THEN BestTransform(results, i + 1, results[i].error,
                  [dx |-> results[i].dx, dy |-> results[i].dy,
                   scale_x |-> SCALE_ONE, scale_y |-> SCALE_ONE,
                   angle_deg |-> tile.angle_deg,
                   confidence |-> results[i].confidence], tile)
         ELSE BestTransform(results, i + 1, best_error, best_transform, tile)

\* One tile of one pass that adds the matched shift to the shift the
\* placement already has.
RefineTile_Accumulates(ts, placements, coord, overlap, band, ph) ==
    LET results == SeamResults(ts, coord, overlap, band, ph)
        old == placements[coord].transform
        best == BestTransform(results, 1, BestErrorStart, old, ts[coord])
    IN  IF results = <<>> THEN placements
        ELSE [placements EXCEPT ![coord].transform =
                 [best EXCEPT !.dx = @ + old.dx, !.dy = @ + old.dy]]

\* One tile of one pass.
RefineTile(ts, placements, coord, overlap, band, ph) ==
    LET results == SeamResults(ts, coord, overlap, band, ph)
    IN  IF results = <<>> THEN placements
        ELSE [placements EXCEPT ![coord].transform =
                 BestTransform(results, 1, BestErrorStart, placements[coord].transform,
                               ts[coord])]

RECURSIVE RefinePass(_, _, _, _, _, _, _)
RefinePass(ts, placements, order, i, overlap, band, ph) ==
    IF i > Len(order) THEN placements
    ELSE RefinePass(ts, RefineTile(ts, placements, order[i], overlap, band, ph),
                    order, i + 1, overlap, band, ph)

RECURSIVE RefinePasses(_, _, _, _, _, _)
RefinePasses(ts, placements, overlap, band, iterations, ph) ==
    IF iterations <= 0 THEN placements
    ELSE RefinePasses(ts,
             RefinePass(ts, placements, SortedCoords(DOMAIN ts), 1, overlap, band, ph),
             overlap, band, iterations - 1, ph)

\* A refinement that bakes the truncated offsets into the origins and grows
\* the canvas by the overlap.
refine_layout_MovesOrigins(ts, lay, overlap, band, iterations, ph) ==
    LET refined == RefinePasses(ts, lay.placements, overlap, band, iterations, ph)
    IN  [placements |->
            [c \in DOMAIN refined |->
                [refined[c] EXCEPT
                    !.origin_x = @ + PyInt(refined[c].transform.dx),
                    !.origin_y = @ + PyInt(refined[c].transform.dy)]],
         canvas_size |-> <<lay.canvas_size[1] + overlap, lay.canvas_size[2] + overlap>>]

refine_layout(ts, lay, overlap, band, iterations, ph) ==
    [placements |-> RefinePasses(ts, lay.placements, overlap, band, iterations, ph),
     canvas_size |-> lay.canvas_size]

\* A seam match of the first pass raises.
refine_layout_raises(ts, band, iterations) ==
    /\ iterations > 0
    /\ \E c \in DOMAIN ts :
          \/ /\ grid_neighbors(c).left \in DOMAIN ts
             /\ match_seam_raises(ts[grid_neighbors(c).left], ts[c], band)
          \/ /\ grid_neighbors(c).top \in DOMAIN ts
             /\ match_seam_vertical_raises(ts[grid_neighbors(c).top], ts[c], band)

(***************************************************************************)
(* core/blend.py, as far as the tile shapes decide it: the blended strip   *)
(* is `overlap` wide, and numpy raises when a tile is narrower than that.  *)
(***************************************************************************)
feather_blend_raises(left, right, overlap) ==
    overlap > 0 /\ (overlap > left.w \/ overlap > right.w)

feather_blend_vertical_raises(top, bottom, overlap) ==
    overlap > 0 /\ (overlap > top.h \/ overlap > bottom.h)

(***************************************************************************)
(* StitchWorker._compose_canvas.  A canvas pixel holds where its content   *)
(* comes from: the white background, a pixel (ix, iy) of a tile's image    *)
(* (of its resized image when the transform scales), or an inpainting.     *)
(***************************************************************************)
White == [src |-> "white", cell |-> <<0, 0>>, ix |-> 0, iy |-> 0]
Inpainted == [src |-> "inpaint", cell |-> <<0, 0>>, ix |-> 0, iy |-> 0]
SeamFilled == [src |-> "seam_fill", cell |-> <<0, 0>>, ix |-> 0, iy |-> 0]

Scales(tr) == tr.scale_x # SCALE_ONE \/ tr.scale_y # SCALE_ONE

\* Shape of the image the composer draws: cv2.resize rounds the scaled size.
DrawnW(tile, tr) == IF Scales(tr) THEN RoundDiv(tile.w * tr.scale_x, SCALE_ONE) ELSE tile.w
DrawnH(tile, tr) == IF Scales(tr) THEN RoundDiv(tile.h * tr.scale_y, SCALE_ONE) ELSE tile.h

\* cv2.resize raises on a scale <= 0 and on an empty result.
ResizeRaises(tile, tr) ==
    /\ Scales(tr)
    /\ \/ tr.scale_x <= 0 \/ tr.scale_y <= 0
       \/ DrawnW(tile, tr) <= 0 \/ DrawnH(tile, tr) <= 0

\* Lines 164-172 for one tile: the destination and source index sets.
Placement(tile, pl, cw, ch) ==
    LET w == DrawnW(tile, pl.transform)
        h == DrawnH(tile, pl.transform)
        x0u == pl.origin_x + PyInt(pl.transform.dx)
        y0u == pl.origin_y + PyInt(pl.transform.dy)
        x1 == Min(cw, x0u + w)
        y1 == Min(ch, y0u + h)
        x0 == Max(0, x0u)
        y0 == Max(0, y0u)
    IN  [x0u |-> x0u, y0u |-> y0u, x0 |-> x0, y0 |-> y0, x1 |-> x1, y1 |-> y1,
         w |-> w, h |-> h,
         dcols |-> PySlice(x0, x1, cw), drows |-> PySlice(y0, y1, ch),
         scols |-> PySlice(0, x1 - x0, w), srows |-> PySlice(0, y1 - y0, h)]

\* numpy broadcasts a source axis onto a destination axis of the same
\* length, or from length 1; anything else raises ValueError.
Broadcasts(src, dst) == Cardinality(src) = Cardinality(dst) \/ Cardinality(src) = 1

AssignRaises(p) == ~(Broadcasts(p.scols, p.dcols) /\ Broadcasts(p.srows, p.drows))

\* Line 171: the canvas pixels one tile writes.
WrittenBy(p) == p.dcols \X p.drows

\* An occupancy marked on the tile's whole unclipped rectangle.
OccupiedBy_Unclipped(p) == (p.x0u .. (p.x0u + p.w - 1)) \X (p.y0u .. (p.y0u + p.h - 1))

\* Line 172: the occupancy pixels one tile marks.
OccupiedBy(p) == p.dcols \X p.drows

\* The image pixel copied to canvas pixel px.
SourceOf(p, coord, scaled, px) ==
    [src |-> IF scaled THEN "resized" ELSE "tile", cell |-> coord,
     ix |-> IF Cardinality(p.scols) = 1 THEN 0 ELSE px[1] - p.x0,
     iy |-> IF Cardinality(p.srows) = 1 THEN 0 ELSE px[2] - p.y0]

\* The loop of lines 159-172 from tile i of `order` on; st is
\* [raises, canvas, occupancy, resized].
RECURSIVE ComposeFrom(_, _, _, _, _, _, _)
ComposeFrom(ts, lay, order, i, cw, ch, st) ==
    IF i > Len(order) \/ st.raises THEN st
    ELSE LET coord == order[i]
             pl == lay.placements[coord]
             p == Placement(ts[coord], pl, cw, ch)
             scaled == Scales(pl.transform)
             resized == IF scaled
                        THEN st.resized \cup {<<pl.transform.scale_x, pl.transform.scale_y>>}
                        ELSE st.resized
         IN  IF ResizeRaises(ts[coord], pl.transform) \/ AssignRaises(p)
             THEN [st EXCEPT !.raises = TRUE, !.resized = resized]
             ELSE ComposeFrom(ts, lay, order, i + 1, cw, ch,
                     [raises |-> FALSE,
                      canvas |-> [px \in DOMAIN st.canvas |->
                                     IF px \in WrittenBy(p)
                                     THEN SourceOf(p, coord, scaled, px)
                                     ELSE st.canvas[px]],
                      occupancy |-> st.occupancy \cup OccupiedBy(p),
                      resized |-> resized])

compose_canvas(ts, lay) ==
    LET canvas_w == lay.canvas_size[1]
        canvas_h == lay.canvas_size[2]
    IN  ComposeFrom(ts, lay, SortedCoords(DOMAIN ts), 1, canvas_w, canvas_h,
            [raises |-> FALSE,
             canvas |-> [px \in Pixels(canvas_w, canvas_h) |-> White],
             occupancy |-> {},
             resized |-> {}])

(***************************************************************************)
(* cv2.inpaint: the pixels of the mask are repainted, the others kept.     *)
(***************************************************************************)
Inpaint(image, mask, paint) ==
    [px \in DOMAIN image |-> IF px \in mask THEN paint ELSE image[px]]

(***************************************************************************)
(* core/seamfill.py                                                        *)
(***************************************************************************)
\* cv2.dilate with the 3x3 rectangle, one iteration.
Dilate3(mask, all) ==
    {px \in all : \E q \in mask : Abs(q[1] - px[1]) <= 1 /\ Abs(q[2] - px[2]) <= 1}

edge_extend(image, mask) == Inpaint(image, Dilate3(mask, DOMAIN image), SeamFilled)

seam_fill(image, mask, method, radius) ==
    IF method = "edge_extend" THEN edge_extend(image, mask)
    ELSE Inpaint(image, mask, SeamFilled)

(***************************************************************************)
(* StitchWorker._limit_seam_mask.  cv2.distanceTransform(src, DIST_L2, 3)  *)
(* gives every pixel its chamfer distance (weights 0.955 and 1.3693) to    *)
(* the nearest zero pixel of src, 0 on the zero pixels themselves.         *)
(***************************************************************************)
ChamferUnit == 10000
ChamferStraight == 9550
ChamferDiagonal == 13693
ChamferFar == 1000000000

Chamfer(a, b) ==
    LET ax == Abs(a[1] - b[1])
        ay == Abs(a[2] - b[2])
    IN  ChamferDiagonal * Min(ax, ay) + ChamferStraight * (Max(ax, ay) - Min(ax, ay))

\* In units of 1/ChamferUnit pixel; zeros is the set of zero pixels of src.
DistanceTransform(zeros, px) ==
    IF px \in zeros THEN 0
    ELSE IF zeros = {} THEN ChamferFar
    ELSE LET ds == {Chamfer(px, z) : z \in zeros}
         IN  CHOOSE d \in ds : \A e \in ds : d <= e

limit_seam_mask(gap, all, st) ==
    IF st.seam_fill_max_px <= 0 THEN gap
    ELSE LET limited(px) ==
                 DistanceTransform(gap, px) <= st.seam_fill_max_px * ChamferUnit
         IN  {px \in all : px \in gap /\ limited(px)}

\* Line 117: seam_mask.mean() < 1.0, the mask holding 0 and 255 (the mean
\* of an empty array is nan, and nan < 1.0 is False).
MaskMeanBelowOne(fill_area, total) == total > 0 /\ 255 * fill_area < total

\* Line 119: fill_area / float(h * w) < 0.005.
AreaBelowLimit(fill_area, total) == 1000 * fill_area < 5 * total

\* A seam fill that runs on any mask with a set pixel.
SeamFillRuns_AnyArea(fill_area, total) == fill_area > 0

\* Lines 117-120: whether seam_fill is called, given the count of set mask
\* pixels and the canvas pixel count.
SeamFillRuns(fill_area, total) ==
    MaskMeanBelowOne(fill_area, total) /\ AreaBelowLimit(fill_area, total)

\* Lines 117-123: whether the skip is logged instead.
SeamFillSkipLogged(fill_area, total) ==
    MaskMeanBelowOne(fill_area, total) /\ ~AreaBelowLimit(fill_area, total)

\* Line 108: whether the universal repair runs.
\* A universal repair that runs only when seam fill is enabled.
UniversalRepairRuns_WhenEnabled(gap_px, st) == gap_px > 0 /\ st.seam_fill_enabled

\* A universal repair that leaves a gap of a single pixel alone.
UniversalRepairRuns_NotOnePixel(gap_px, st) == gap_px > 1

UniversalRepairRuns(gap_px, st) == gap_px > 0

(***************************************************************************)
(* core/io.py.  A path is [tile, x, y]: whether its name matches TILE_RE,  *)
(* and the coordinates the name gives.                                     *)
(***************************************************************************)
parse_tile_name(path) == IF path.tile THEN <<path.x, path.y>> ELSE <<>>

load_tiles(paths) ==
    SortedCoords({parse_tile_name(p) : p \in {q \in paths : parse_tile_name(q) # <<>>}})

(***************************************************************************)
(* StitchWorker: the helpers of _run.                                      *)
(***************************************************************************)
apply_mode_overrides(st, md) ==
    IF md = "fast"
    THEN [st EXCEPT !.refine_iterations = Min(st.refine_iterations, 1),
                    !.color_match = IF st.color_match = "strong" THEN "mild"
                                    ELSE st.color_match]
    ELSE st

\* f"{coord[0]},{coord[1]}"
Key(coord) == ToString(coord[1]) \o "," \o ToString(coord[2])

\* Overrides that yield to a transform refinement has matched.
apply_manual_transforms_RefinedWins(lay, manual) ==
    [lay EXCEPT !.placements =
        [c \in DOMAIN lay.placements |->
            IF Key(c) \in DOMAIN manual /\ lay.placements[c].transform.confidence = 0
            THEN [lay.placements[c] EXCEPT !.transform = manual[Key(c)]]
            ELSE lay.placements[c]]]

apply_manual_transforms(lay, manual) ==
    [lay EXCEPT !.placements =
        [c \in DOMAIN lay.placements |->
            IF Key(c) \in DOMAIN manual
            THEN [lay.placements[c] EXCEPT !.transform = manual[Key(c)]]
            ELSE lay.placements[c]]]

\* The cells of range(1, max_x + 1) x range(1, max_y + 1) without a tile,
\* in the order of the two loops.
\* A report that stops at the first missing cell.
MissingCells_FirstOnly(infos) ==
    LET existing == Range(infos)
        grid_max_x == SetMax({c[1] : c \in existing})
        grid_max_y == SetMax({c[2] : c \in existing})
        all == SortedCoords((1 .. grid_max_x) \X (1 .. grid_max_y))
        missing == SelectSeq(all, LAMBDA c : c \notin existing)
    IN  IF missing = <<>> THEN <<>> ELSE <<missing[1]>>

MissingCells(infos) ==
    LET existing == Range(infos)
        grid_max_x == SetMax({c[1] : c \in existing})
        grid_max_y == SetMax({c[2] : c \in existing})
        all == SortedCoords((1 .. grid_max_x) \X (1 .. grid_max_y))
    IN  SelectSeq(all, LAMBDA c : c \notin existing)

\* The tiles _blend_neighbors blends with a left or a top neighbour.
BlendPairs(ts) ==
    {<<grid_neighbors(c).left, c, "left">> : c \in {d \in DOMAIN ts : grid_neighbors(d).left \in DOMAIN ts}}
    \cup
    {<<grid_neighbors(c).top, c, "top">> : c \in {d \in DOMAIN ts : grid_neighbors(d).top \in DOMAIN ts}}

blend_neighbors_raises(ts, st) ==
    LET overlap == Min(st.overlap_max, st.feather_px)
    IN  \E pr \in BlendPairs(ts) :
           IF pr[3] = "left" THEN feather_blend_raises(ts[pr[1]], ts[pr[2]], overlap)
           ELSE feather_blend_vertical_raises(ts[pr[1]], ts[pr[2]], overlap)

blend_neighbors(ts, st) ==
    LET overlap == Min(st.overlap_max, st.feather_px)
        touched == {pr[1] : pr \in BlendPairs(ts)} \cup {pr[2] : pr \in BlendPairs(ts)}
    IN  [c \in DOMAIN ts |->
            IF overlap > 0 /\ c \in touched THEN [ts[c] EXCEPT !.blended = TRUE]
            ELSE ts[c]]

\* The seam matches one pass of refine_layout computes.
MatchPairs(ts) == BlendPairs(ts)

(***************************************************************************)
(* The stages of _run, in the order of its statements.                     *)
(***************************************************************************)
StageOrder ==
    <<"Loading", "Preprocessing", "PhotometricNormalize", "LayoutInitial",
      "LayoutRefine", "ManualOverrides", "EdgeBlend", "Compose",
      "GapRepairUniversal", "GapRepairSeamFill", "FinalCheck", "Done">>

StageIndex(stage) == CHOOSE i \in 1 .. Len(StageOrder) : StageOrder[i] = stage

\* A run that blends before it refines.
StageAfter_BlendFirst(stage, st) ==
    IF stage = "Done" THEN "finished"
    ELSE IF stage = "GapRepairUniversal" /\ ~st.seam_fill_enabled THEN "FinalCheck"
    ELSE IF stage = "LayoutInitial" THEN "EdgeBlend"
    ELSE IF stage = "EdgeBlend" THEN "LayoutRefine"
    ELSE IF stage = "LayoutRefine" THEN "ManualOverrides"
    ELSE IF stage = "ManualOverrides" THEN "Compose"
    ELSE StageOrder[StageIndex(stage) + 1]

\* A run that also polls the cancel flag between composition and repair.
StageAfter_PollsAfterCompose(stage, st) ==
    IF stage = "Done" THEN "finished"
    ELSE IF stage = "Compose" /\ cancelFlag THEN "cancelled"
    ELSE IF stage = "GapRepairUniversal" /\ ~st.seam_fill_enabled THEN "FinalCheck"
    ELSE StageOrder[StageIndex(stage) + 1]

\* The stage _run goes on to when `stage` has completed.
StageAfter(stage, st) ==
    IF stage = "Done" THEN "finished"
    ELSE IF stage = "GapRepairUniversal" /\ ~st.seam_fill_enabled THEN "FinalCheck"
    ELSE StageOrder[StageIndex(stage) + 1]

\* Where _run is while the body of a per-tile iteration executes, after the
\* poll of the cancel flag at its top.
InFlight == {"PreprocessingTile", "PhotometricNormalizeTile"}

Running == pc \in Range(StageOrder) \cup InFlight

Emit(sig, msg) == [sig EXCEPT !.log = Append(@, msg)]

\* run(): an exception of _run ends the run with the failed signal.
Raise(sig) == [sig EXCEPT !.failed = @ + 1]

\* A stage is entered once: a per-tile loop enters it with its first tile.
Enter(stage) == IF idx = 1 THEN Append(stages, stage) ELSE stages

(***************************************************************************)
(* The inputs of a run.                                                    *)
(***************************************************************************)
\* Decoded tile images: a landscape and a portrait scan, and a wide strip.
KindA == [w |-> 3, h |-> 2, contours |-> TRUE, rect |-> -88 * DEG, readable |-> TRUE]
KindB == [w |-> 2, h |-> 3, contours |-> TRUE, rect |-> 30 * DEG, readable |-> TRUE]
KindWide == [w |-> 256, h |-> 1, contours |-> FALSE, rect |-> 0, readable |-> TRUE]

\* The tile sets: a full grid of some extent, with at most one cell missing,
\* and the far corner tile on its own.
TileSets ==
    {((1 .. r) \X (1 .. c)) \ miss :
        r \in 1 .. MaxRow, c \in 1 .. MaxCol,
        miss \in {{}} \cup {{m} : m \in Cells}}
    \cup {{<<MaxRow, MaxCol>>}}

\* What the folder holds: the tile files and a file that is no tile.
PathsOf(img) ==
    {[tile |-> TRUE, x |-> c[1], y |-> c[2]] : c \in DOMAIN img}
    \cup {[tile |-> FALSE, x |-> 0, y |-> 0]}

\* Answers of cv2.phaseCorrelate: no shift; a sub-pixel shift; a shift far
\* beyond any overlap, with a weak response.
PhaseAnswers ==
    {[dx |-> 0, dy |-> 0, response |-> 9],
     [dx |-> 14, dy |-> -6, response |-> 8],
     [dx |-> -250, dy |-> 250, response |-> 8]}

\* Manual overrides: none; a shift of the first tile; a scale out of range
\* for tile 1,2 together with a key that names no cell of any grid.
ManualShift == [dx |-> 10, dy |-> 0, scale_x |-> SCALE_ONE, scale_y |-> SCALE_ONE,
                angle_deg |-> 0, confidence |-> RESP_ONE]
ManualScale == [dx |-> -6, dy |-> 6, scale_x |-> 2 * SCALE_ONE, scale_y |-> SCALE_ONE,
                angle_deg |-> 5, confidence |-> RESP_ONE]

ManualMaps ==
    {<<>>,
     "1,1" :> ManualShift,
     ("1,2" :> ManualScale) @@ ("9,9" :> ManualShift)}

BaseSettings ==
    [max_angle |-> 7 * DEG, overlap_max |-> 1, seam_band_px |-> 1,
     refine_iterations |-> 1, max_scale_percent |-> 5, feather_px |-> 1,
     color_match |-> "mild", protect_lines |-> FALSE,
     seam_fill_enabled |-> FALSE, seam_fill_max_px |-> 1,
     inpaint_radius |-> 3, inpaint_method |-> "telea", debug_stitch |-> FALSE]

NoLayout == [placements |-> <<>>, canvas_size |-> <<0, 0>>]
NoSignals ==
    [log |-> <<>>, progress |-> 0, finished |-> 0, failed |-> 0, preview |-> <<>>,
     tiff |-> <<>>]
NoCalls ==
    [match |-> 0, match_on_blended |-> FALSE, blend |-> 0, inpaint |-> 0,
     seam_fill |-> <<>>, seam_mask |-> <<>>, resized |-> {}]

\* The images of a run: a pattern, cut to the cells of a tile set.
ImagesOf(pat, ts) == [c \in ts |-> pat[c]]
PatUniform == [c \in Cells |-> KindA]
PatChecker == [c \in Cells |-> IF (c[1] + c[2]) % 2 = 0 THEN KindA ELSE KindB]
PatWide == [c \in Cells |-> KindWide]

\* Runs that vary the geometry: the tile set, the tile shapes, the seam
\* shifts, the overlap limit and the manual overrides.
GeometryRun ==
    /\ \E ts \in TileSets, pat \in {PatUniform, PatChecker} : images = ImagesOf(pat, ts)
    /\ phase \in [left : PhaseAnswers, top : PhaseAnswers]
    /\ transforms \in ManualMaps
    /\ \E o \in 0 .. MaxOverlap : settings = [BaseSettings EXCEPT !.overlap_max = o]
    /\ mode = "restoration"

\* Runs that vary the control flow: the mode, the number of refinement
\* passes, the seam fill switch and the debug pack.
ControlRun ==
    /\ \E ts \in {(1 .. 1) \X (1 .. MaxCol), Cells} : images = ImagesOf(PatChecker, ts)
    /\ phase \in {[left |-> a, top |-> a] : a \in PhaseAnswers}
    /\ transforms = <<>>
    /\ \E it \in 0 .. MaxIter, sf \in BOOLEAN, dbg \in BOOLEAN :
          settings = [BaseSettings EXCEPT !.refine_iterations = it,
                                          !.seam_fill_enabled = sf,
                                          !.debug_stitch = dbg]
    /\ mode \in {"fast", "restoration"}

\* Runs with seam fill enabled on small canvases.
FillRun ==
    /\ \E ts \in TileSets, pat \in {PatUniform, PatChecker} : images = ImagesOf(pat, ts)
    /\ phase \in {[left |-> a, top |-> a] : a \in PhaseAnswers}
    /\ transforms \in ManualMaps
    /\ \E pl \in BOOLEAN, mx \in 0 .. 1, im \in {"telea", "ns", "edge_extend"} :
          settings = [BaseSettings EXCEPT !.seam_fill_enabled = TRUE,
                                          !.protect_lines = pl,
                                          !.seam_fill_max_px = mx,
                                          !.inpaint_method = im]
    /\ mode = "restoration"

\* Runs with seam fill enabled on one row of wide strips: canvases of more
\* than 255 pixels.
WideRun ==
    /\ \E c \in 1 .. MaxCol : images = ImagesOf(PatWide, (1 .. 1) \X (1 .. c))
    /\ phase \in {[left |-> a, top |-> a] : a \in PhaseAnswers}
    /\ transforms \in ManualMaps
    /\ \E pl \in BOOLEAN, o \in 0 .. MaxOverlap, im \in {"telea", "edge_extend"} :
          settings = [BaseSettings EXCEPT !.seam_fill_enabled = TRUE,
                                          !.protect_lines = pl,
                                          !.overlap_max = o,
                                          !.inpaint_method = im]
    /\ mode = "restoration"

\* A file cv2.imdecode cannot decode.
KindUnreadable == [KindA EXCEPT !.readable = FALSE]

\* Manual transforms that move a tile by three to five pixels along one
\* axis, in either direction.
FarShifts ==
    {[ManualShift EXCEPT !.dx = sx * k * PX, !.dy = sy * k * PX] :
        k \in 3 .. 5, sx \in {-1, 0, 1}, sy \in {-1, 0, 1}} \ {[ManualShift EXCEPT !.dx = 0]}

\* Runs in which a stage can raise: an undecodable file, a seam band or a
\* blend overlap wider than a tile, a manual transform that moves the first
\* or the last tile of a row off the canvas.
FaultRun ==
    /\ phase \in {[left |-> a, top |-> a] : a \in PhaseAnswers}
    /\ mode = "restoration"
    /\ \/ /\ \E ts \in {(1 .. 1) \X (1 .. MaxCol), Cells}, bad \in Cells :
                /\ bad \in ts
                /\ images = [ImagesOf(PatChecker, ts) EXCEPT ![bad] = KindUnreadable]
          /\ transforms = <<>>
          /\ settings = BaseSettings
       \/ /\ \E ts \in TileSets : images = ImagesOf(PatChecker, ts)
          /\ transforms = <<>>
          /\ settings \in {[BaseSettings EXCEPT !.seam_band_px = MaxOverlap + 1],
                           [BaseSettings EXCEPT !.overlap_max = MaxOverlap + 1,
                                                !.feather_px = MaxOverlap + 1]}
       \/ /\ \E c \in 1 .. MaxCol, pat \in {PatUniform, PatChecker} :
                /\ images = ImagesOf(pat, (1 .. 1) \X (1 .. c))
                /\ \E t \in FarShifts :
                      transforms \in {"1,1" :> t, Key(<<1, c>>) :> t}
          /\ settings = BaseSettings

\* The worker as constructed, before its thread starts run().
Init ==
    /\ pc = "Loading"
    /\ cancelFlag = FALSE
    /\ GeometryRun \/ ControlRun \/ FillRun \/ WideRun \/ FaultRun
    /\ tiles_info = <<>>
    /\ tiles = <<>>
    /\ idx = 1
    /\ layout = NoLayout
    /\ canvas = <<>>
    /\ occupancy = {}
    /\ gap_mask = {}
    /\ signals = NoSignals
    /\ stages = <<>>
    /\ calls = NoCalls
    /\ probe = <<>>

inputs == <<mode, transforms, images, phase>>

(***************************************************************************)
(* The steps of StitchWorker.run / _run.                                   *)
(***************************************************************************)
\* cancel(), called from the GUI thread while the worker runs.
Cancel ==
    /\ Running
    /\ ~cancelFlag
    /\ cancelFlag' = TRUE
    /\ UNCHANGED <<pc, settings, inputs, tiles_info, tiles, idx, layout, canvas,
                   occupancy, gap_mask, signals, stages, calls, probe>>

\* Lines 66-82.
Loading ==
    /\ pc = "Loading"
    /\ stages' = Enter("Loading")
    /\ settings' = apply_mode_overrides(settings, mode)
    /\ LET infos == load_tiles(PathsOf(images))
           sig == Emit(signals, <<"Loading tiles...">>)
       IN  IF infos = <<>>
           THEN /\ pc' = "failed"
                /\ signals' = Raise(sig)
                /\ tiles_info' = tiles_info
           ELSE /\ pc' = StageAfter("Loading", settings')
                /\ tiles_info' = infos
                /\ signals' = IF MissingCells(infos) # <<>>
                              THEN Emit(sig, <<"Missing tiles", MissingCells(infos)>>)
                              ELSE sig
    /\ UNCHANGED <<cancelFlag, inputs, tiles, idx, layout, canvas, occupancy,
                   gap_mask, calls, probe>>

\* A poll that never sees the flag.
PollCancel_Ignored(flag, stage) ==
    IF stage = "Preprocessing" THEN "PreprocessingTile" ELSE "PhotometricNormalizeTile"

\* Where the poll at the top of an iteration of `stage` leads: out of the
\* run when the flag is set, into the body of the iteration otherwise.
PollCancel(flag, stage) ==
    IF flag THEN "cancelled"
    ELSE IF stage = "Preprocessing" THEN "PreprocessingTile"
    ELSE "PhotometricNormalizeTile"

\* Lines 83-85: the poll at the top of an iteration of the preprocessing
\* loop.
PreprocessPoll ==
    /\ pc = "Preprocessing"
    /\ stages' = Enter("Preprocessing")
    /\ pc' = PollCancel(cancelFlag, "Preprocessing")
    /\ UNCHANGED <<cancelFlag, settings, inputs, tiles_info, tiles, idx, layout,
                   canvas, occupancy, gap_mask, signals, calls, probe>>

\* Lines 86-90: the body of one iteration of the preprocessing loop, and
\* line 90 after the last.
PreprocessTile ==
    /\ pc = "PreprocessingTile"
    /\ LET info == tiles_info[idx]
       IN  IF ~images[info].readable
           THEN /\ pc' = "failed"
                /\ signals' = Raise(signals)
                /\ UNCHANGED <<tiles, idx>>
           ELSE /\ tiles' = (info :> preprocess_tile(info, images[info], settings)) @@ tiles
                /\ LET sig == [signals EXCEPT !.progress = (idx * 20) \div Len(tiles_info)]
                   IN  IF idx = Len(tiles_info)
                       THEN /\ pc' = StageAfter("Preprocessing", settings)
                            /\ idx' = 1
                            /\ signals' = Emit(sig, <<"Photometric normalization...">>)
                       ELSE /\ pc' = "Preprocessing"
                            /\ idx' = idx + 1
                            /\ signals' = sig
    /\ UNCHANGED <<cancelFlag, settings, inputs, tiles_info, layout, canvas,
                   occupancy, gap_mask, stages, calls, probe>>

\* Lines 91-93: the poll at the top of an iteration of the photometric
\* loop.
PhotometricPoll ==
    /\ pc = "PhotometricNormalize"
    /\ stages' = Enter("PhotometricNormalize")
    /\ pc' = PollCancel(cancelFlag, "PhotometricNormalize")
    /\ UNCHANGED <<cancelFlag, settings, inputs, tiles_info, tiles, idx, layout,
                   canvas, occupancy, gap_mask, signals, calls, probe>>

\* Lines 94-98: the body of one iteration of the photometric loop.
PhotometricTile ==
    /\ pc = "PhotometricNormalizeTile"
    /\ LET order == SortedCoords(DOMAIN tiles)
           coord == order[idx]
           above == <<coord[1], coord[2] - 1>>
           ref_coord == IF above \in DOMAIN tiles THEN above
                        ELSE <<coord[1] - 1, coord[2]>>
       IN  /\ tiles' = IF coord # <<1, 1>> /\ ref_coord \in DOMAIN tiles
                          /\ settings.color_match # "off"
                       THEN [tiles EXCEPT ![coord].matched = TRUE]
                       ELSE tiles
           /\ IF idx = Len(order)
              THEN pc' = StageAfter("PhotometricNormalize", settings) /\ idx' = 1
              ELSE pc' = "PhotometricNormalize" /\ idx' = idx + 1
    /\ UNCHANGED <<cancelFlag, settings, inputs, tiles_info, layout, canvas,
                   occupancy, gap_mask, signals, stages, calls, probe>>

\* Line 99.
LayoutInitial ==
    /\ pc = "LayoutInitial"
    /\ stages' = Enter("LayoutInitial")
    /\ layout' = initial_layout(tiles)
    /\ pc' = StageAfter("LayoutInitial", settings)
    /\ UNCHANGED <<cancelFlag, settings, inputs, tiles_info, tiles, idx, canvas,
                   occupancy, gap_mask, signals, calls, probe>>

\* Line 100.
LayoutRefine ==
    /\ pc = "LayoutRefine"
    /\ stages' = Enter("LayoutRefine")
    /\ IF refine_layout_raises(tiles, settings.seam_band_px, settings.refine_iterations)
       THEN /\ pc' = "failed"
            /\ signals' = Raise(signals)
            /\ UNCHANGED <<layout, calls>>
       ELSE /\ pc' = StageAfter("LayoutRefine", settings)
            /\ layout' = refine_layout(tiles, layout, settings.overlap_max,
                                       settings.seam_band_px,
                                       settings.refine_iterations, phase)
            /\ calls' = [calls EXCEPT
                  !.match = @ + Max(0, settings.refine_iterations)
                                * Cardinality(MatchPairs(tiles)),
                  !.match_on_blended =
                      @ \/ /\ settings.refine_iterations > 0
                           /\ \E pr \in MatchPairs(tiles) :
                                 tiles[pr[1]].blended \/ tiles[pr[2]].blended]
            /\ signals' = signals
    /\ UNCHANGED <<cancelFlag, settings, inputs, tiles_info, tiles, idx, canvas,
                   occupancy, gap_mask, probe>>

\* Line 101.
ManualOverrides ==
    /\ pc = "ManualOverrides"
    /\ stages' = Enter("ManualOverrides")
    /\ layout' = apply_manual_transforms(layout, transforms)
    /\ pc' = StageAfter("ManualOverrides", settings)
    /\ UNCHANGED <<cancelFlag, settings, inputs, tiles_info, tiles, idx, canvas,
                   occupancy, gap_mask, signals, calls, probe>>

\* Lines 102-103.
EdgeBlend ==
    /\ pc = "EdgeBlend"
    /\ stages' = Enter("EdgeBlend")
    /\ LET sig == Emit(signals, <<"Blending overlaps...">>)
       IN  IF blend_neighbors_raises(tiles, settings)
           THEN /\ pc' = "failed"
                /\ signals' = Raise(sig)
                /\ UNCHANGED <<tiles, calls>>
           ELSE /\ pc' = StageAfter("EdgeBlend", settings)
                /\ signals' = sig
                /\ tiles' = blend_neighbors(tiles, settings)
                /\ calls' = [calls EXCEPT !.blend = @ + Cardinality(BlendPairs(tiles))]
    /\ UNCHANGED <<cancelFlag, settings, inputs, tiles_info, idx, layout, canvas,
                   occupancy, gap_mask, probe>>

\* Lines 104-107.
Compose ==
    /\ pc = "Compose"
    /\ stages' = Enter("Compose")
    /\ LET sig == Emit(signals, <<"Composing canvas...">>)
           r == compose_canvas(tiles, layout)
       IN  /\ calls' = [calls EXCEPT !.resized = @ \cup r.resized]
           /\ IF r.raises
              THEN /\ pc' = "failed"
                   /\ signals' = Raise(sig)
                   /\ UNCHANGED <<canvas, occupancy, gap_mask>>
              ELSE /\ pc' = StageAfter("Compose", settings)
                   /\ signals' = sig
                   /\ canvas' = r.canvas
                   /\ occupancy' = r.occupancy
                   /\ gap_mask' = DOMAIN r.canvas \ r.occupancy
    /\ UNCHANGED <<cancelFlag, settings, inputs, tiles_info, tiles, idx, layout, probe>>

\* Lines 108-112.
GapRepairUniversal ==
    /\ pc = "GapRepairUniversal"
    /\ stages' = Enter("GapRepairUniversal")
    /\ pc' = StageAfter("GapRepairUniversal", settings)
    /\ LET gap_px == Cardinality(gap_mask)
       IN  IF UniversalRepairRuns(gap_px, settings)
           THEN /\ signals' = Emit(signals, <<"Gap detected", gap_px>>)
                /\ canvas' = Inpaint(canvas, gap_mask, Inpainted)
                /\ occupancy' = occupancy \cup gap_mask
                /\ calls' = [calls EXCEPT !.inpaint = @ + 1]
           ELSE UNCHANGED <<signals, canvas, occupancy, calls>>
    /\ UNCHANGED <<cancelFlag, settings, inputs, tiles_info, tiles, idx, layout,
                   gap_mask, probe>>

\* What protect_lines_mask can find on a canvas: nothing, its first
\* column, every other column, or all of it.
ProtectMasks(all) ==
    {{}, {px \in all : px[1] = 0}, {px \in all : px[1] % 2 = 1}, all}

\* Lines 113-123.
GapRepairSeamFill ==
    /\ pc = "GapRepairSeamFill"
    /\ stages' = Enter("GapRepairSeamFill")
    /\ pc' = StageAfter("GapRepairSeamFill", settings)
    /\ \E protect_mask \in IF settings.protect_lines THEN ProtectMasks(DOMAIN canvas)
                           ELSE {{}} :
          LET limited == limit_seam_mask(gap_mask, DOMAIN canvas, settings)
              seam_mask == limited \ protect_mask
              fill_area == Cardinality(seam_mask)
              total == Cardinality(DOMAIN canvas)
              seen == [calls EXCEPT !.seam_mask =
                          Append(@, [limited |-> limited, mask |-> seam_mask,
                                     protect |-> protect_mask])]
          IN  IF SeamFillRuns(fill_area, total)
              THEN /\ canvas' = seam_fill(canvas, seam_mask, settings.inpaint_method,
                                          settings.inpaint_radius)
                   /\ calls' = [seen EXCEPT !.seam_fill =
                                   Append(@, [mask |-> seam_mask, protect |-> protect_mask])]
                   /\ signals' = signals
              ELSE IF SeamFillSkipLogged(fill_area, total)
              THEN /\ signals' = Emit(signals, <<"Seam fill skipped: area > 0.5% of canvas">>)
                   /\ calls' = seen
                   /\ canvas' = canvas
              ELSE /\ calls' = seen
                   /\ UNCHANGED <<canvas, signals>>
    /\ UNCHANGED <<cancelFlag, settings, inputs, tiles_info, tiles, idx, layout,
                   occupancy, gap_mask, probe>>

\* Lines 124-128.
FinalCheck ==
    /\ pc = "FinalCheck"
    /\ stages' = Enter("FinalCheck")
    /\ pc' = StageAfter("FinalCheck", settings)
    /\ LET gap_mask_after == DOMAIN canvas \ occupancy
           sig == Emit(signals, <<"Final gap check...">>)
           warned == IF Cardinality(gap_mask_after) > 0
                     THEN Emit(sig, <<"Warning: residual gaps detected after fill.">>)
                     ELSE sig
       IN  signals' = [warned EXCEPT !.preview = Append(@, gap_mask_after)]
    /\ UNCHANGED <<cancelFlag, settings, inputs, tiles_info, tiles, idx, layout,
                   canvas, occupancy, gap_mask, calls, probe>>

\* debugpack.save_layout_preview: preview[y0 : y0 + h, x0 : x0 + w] =
\* tile.image, with the unclipped slice of every placement; numpy raises
\* when the slice the array keeps has another shape than the image.
save_layout_preview_raises(ts, lay) ==
    \E c \in DOMAIN lay.placements :
        LET x0 == lay.placements[c].origin_x + PyInt(lay.placements[c].transform.dx)
            y0 == lay.placements[c].origin_y + PyInt(lay.placements[c].transform.dy)
            cols == PySliceAny(x0, x0 + ts[c].w, lay.canvas_size[1])
            rows == PySliceAny(y0, y0 + ts[c].h, lay.canvas_size[2])
        IN  ~(Broadcasts(0 .. (ts[c].w - 1), cols) /\ Broadcasts(0 .. (ts[c].h - 1), rows))

\* Lines 131-132: whether _save_debug raises.
save_debug_raises(ts, lay, st) == st.debug_stitch /\ save_layout_preview_raises(ts, lay)

\* Lines 129-133: the TIFF is written, then the debug pack when
\* debug_stitch is set, then finished is emitted.
Done ==
    /\ pc = "Done"
    /\ stages' = Enter("Done")
    /\ LET written == [Emit(signals, <<"Saving TIFF...">>) EXCEPT
                          !.tiff = Append(@, canvas)]
       IN  IF save_debug_raises(tiles, layout, settings)
           THEN /\ pc' = "failed"
                /\ signals' = Raise(written)
           ELSE /\ pc' = StageAfter("Done", settings)
                /\ signals' = [written EXCEPT !.finished = @ + 1]
    /\ UNCHANGED <<cancelFlag, settings, inputs, tiles_info, tiles, idx, layout,
                   canvas, occupancy, gap_mask, calls, probe>>

Next ==
    \/ Cancel
    \/ Loading
    \/ PreprocessPoll
    \/ PreprocessTile
    \/ PhotometricPoll
    \/ PhotometricTile
    \/ LayoutInitial
    \/ LayoutRefine
    \/ ManualOverrides
    \/ EdgeBlend
    \/ Compose
    \/ GapRepairUniversal
    \/ GapRepairSeamFill
    \/ FinalCheck
    \/ Done

Spec == Init /\ [][Next]_vars

(***************************************************************************)
(* The claims.                                                             *)
(***************************************************************************)
IsPrefix(s, t) == Len(s) <= Len(t) /\ \A i \in 1 .. Len(s) : s[i] = t[i]

StagesWithSeamFill ==
    <<"Loading", "Preprocessing", "PhotometricNormalize", "LayoutInitial",
      "LayoutRefine", "ManualOverrides", "EdgeBlend", "Compose",
      "GapRepairUniversal", "GapRepairSeamFill", "FinalCheck", "Done">>

StagesWithoutSeamFill ==
    <<"Loading", "Preprocessing", "PhotometricNormalize", "LayoutInitial",
      "LayoutRefine", "ManualOverrides", "EdgeBlend", "Compose",
      "GapRepairUniversal", "FinalCheck", "Done">>

\* C1: the stages of a run are entered once each and in the order Loading,
\* Preprocessing, PhotometricNormalize, LayoutInitial, LayoutRefine, manual
\* overrides, EdgeBlend, Compose, GapRepairUniversal, GapRepairSeamFill
\* (only if enabled), FinalCheck, Done; a run that ends with the finished
\* signal has been through all of them and has written the TIFF once; and
\* no seam match is computed on pixels a feather blend has modified.
C1_StagesInOrder ==
    LET expected == IF settings.seam_fill_enabled THEN StagesWithSeamFill
                    ELSE StagesWithoutSeamFill
    IN  /\ IsPrefix(stages, expected)
        /\ pc = "finished" =>
              /\ stages = expected
              /\ signals.finished = 1
              /\ Len(signals.tiff) = 1
        /\ signals.finished > 0 => pc = "finished"
        /\ ~calls.match_on_blended
        /\ calls.blend > 0 /\ Min(settings.overlap_max, settings.feather_px) > 0
              => \A i \in 1 .. Len(stages) : stages[i] = "LayoutRefine" =>
                    \E j \in (i + 1) .. Len(stages) : stages[j] = "EdgeBlend"

\* A finished run with seam fill enabled that matched seams and blended.
C1_Witness ==
    /\ pc = "finished"
    /\ settings.seam_fill_enabled
    /\ calls.match > 0
    /\ \E c \in DOMAIN tiles : tiles[c].blended

\* C2: for a non-empty tile set, initial_layout returns the canvas size
\* (largest column * cell width, largest row * cell height), the cell width
\* and height being the largest image width and height over the tiles.
C2_CanvasSize ==
    pc = "LayoutRefine" =>
        \E r \in DOMAIN tiles, c \in DOMAIN tiles, a \in DOMAIN tiles, b \in DOMAIN tiles :
            /\ \A d \in DOMAIN tiles :
                  /\ d[1] <= r[1]
                  /\ d[2] <= c[2]
                  /\ tiles[d].w <= tiles[a].w
                  /\ tiles[d].h <= tiles[b].h
            /\ layout.canvas_size = <<c[2] * tiles[a].w, r[1] * tiles[b].h>>

\* initial_layout has returned for a grid with more columns than rows whose
\* tiles differ in shape.
C2_Witness ==
    /\ pc = "LayoutRefine"
    /\ \E c \in DOMAIN tiles, d \in DOMAIN tiles : tiles[c].w # tiles[d].w
    /\ \E c \in DOMAIN tiles : c[2] > 1
    /\ \A c \in DOMAIN tiles : c[1] = 1

Origins(lay) ==
    [c \in DOMAIN lay.placements |->
        <<lay.placements[c].origin_x, lay.placements[c].origin_y>>]

LayoutKept ==
    layout # NoLayout =>
        /\ layout'.canvas_size = layout.canvas_size
        /\ Origins(layout') = Origins(layout)

BuffersFitLayout ==
    canvas # <<>> =>
        /\ DOMAIN canvas = Pixels(layout.canvas_size[1], layout.canvas_size[2])
        /\ occupancy \subseteq DOMAIN canvas
        /\ \A c \in DOMAIN tiles :
              WrittenBy(Placement(tiles[c], layout.placements[c],
                                  layout.canvas_size[1], layout.canvas_size[2]))
                  \subseteq DOMAIN canvas

\* C3: once initial_layout has returned, no later stage (refinement, manual
\* overrides, blending, composition, repair) changes the layout's
\* canvas_size or any placement's origin_x/origin_y; the canvas and
\* occupancy buffers of the composer have exactly that size, and every pixel
\* a tile placement writes lies inside it.
C3_CanvasFixed == [][LayoutKept]_vars /\ []BuffersFitLayout

\* The composer has run on a layout whose transforms were moved by both
\* refinement and a manual override.
C3_Witness ==
    /\ pc = "GapRepairUniversal"
    /\ canvas # <<>>
    /\ \E c \in DOMAIN tiles : /\ Key(c) \in DOMAIN transforms
                               /\ layout.placements[c].transform = transforms[Key(c)]
    /\ \E c \in DOMAIN tiles : /\ Key(c) \notin DOMAIN transforms
                               /\ PyInt(layout.placements[c].transform.dx) # 0

FromTile(v) == v.src \in {"tile", "resized"}

\* C4: after _compose_canvas, a canvas pixel has occupancy 1 if and only if
\* at least one tile placement wrote it, and the gap mask derived from the
\* occupancy is set exactly on the pixels no tile wrote and clear wherever
\* the occupancy is 1.
C4_OccupancyIsWritten ==
    pc = "GapRepairUniversal" /\ canvas # <<>> =>
        /\ \A px \in DOMAIN canvas : px \in occupancy <=> FromTile(canvas[px])
        /\ occupancy \subseteq DOMAIN canvas
        /\ gap_mask = {px \in DOMAIN canvas : ~FromTile(canvas[px])}
        /\ gap_mask \cap occupancy = {}

\* The composer has returned a canvas with both written and unwritten
\* pixels, one tile having been clipped at the canvas border.
C4_Witness ==
    /\ pc = "GapRepairUniversal"
    /\ canvas # <<>>
    /\ gap_mask # {}
    /\ occupancy # {}
    /\ \E c \in DOMAIN tiles :
          LET p == Placement(tiles[c], layout.placements[c],
                             layout.canvas_size[1], layout.canvas_size[2])
          IN  p.x0u + p.w > layout.canvas_size[1] \/ p.x0u < 0

\* C5: seam_fill is invoked only with a fill mask whose count of set pixels,
\* divided by the count of canvas pixels, is strictly less than 0.005.
C5_SeamFillBelowLimit ==
    \A i \in 1 .. Len(calls.seam_fill) :
        1000 * Cardinality(calls.seam_fill[i].mask) < 5 * Cardinality(DOMAIN canvas)

\* seam_fill has been invoked with a mask that has a set pixel, in a run
\* whose gap mask was not empty.
C5_Witness ==
    /\ Len(calls.seam_fill) > 0
    /\ calls.seam_fill[1].mask # {}
    /\ \E px \in DOMAIN canvas : canvas[px] = SeamFilled

UniversalRepairStep ==
    pc = "GapRepairUniversal" /\ pc' # pc =>
        LET gaps == DOMAIN canvas \ occupancy
        IN  IF gaps # {}
            THEN /\ calls'.inpaint = calls.inpaint + 1
                 /\ gaps \subseteq occupancy'
                 /\ \A px \in gaps : canvas'[px] = Inpainted
                 /\ \A px \in DOMAIN canvas \ gaps : canvas'[px] = canvas[px]
            ELSE /\ calls'.inpaint = calls.inpaint
                 /\ canvas' = canvas
                 /\ occupancy' = occupancy

\* C6: when the composed canvas has a zero-occupancy pixel, the universal
\* inpaint repair runs whatever seam_fill_enabled and the other settings
\* are, and afterwards every pixel that was a gap has occupancy 1; when
\* there is no gap pixel the repair does not run and the stage leaves
\* canvas and occupancy unchanged.
C6_UniversalRepair == [][UniversalRepairStep]_vars

\* The universal repair has run with seam fill disabled and has left no
\* zero-occupancy pixel.
C6_Witness ==
    /\ pc = "FinalCheck"
    /\ calls.inpaint = 1
    /\ ~settings.seam_fill_enabled
    /\ gap_mask # {}
    /\ occupancy = DOMAIN canvas

\* What refine_layout computes in this run from the initial layout.
Refined ==
    refine_layout(tiles, initial_layout(tiles), settings.overlap_max,
                  settings.seam_band_px, settings.refine_iterations, phase)

\* C7: after refinement and before blending, a placed cell (x, y) whose key
\* "x,y" is in the supplied transform mapping has the supplied transform,
\* whatever refinement computed; a placement whose key is absent keeps its
\* refined transform; a key naming no cell of the grid creates no placement.
C7_ManualOverridesWin ==
    pc = "EdgeBlend" =>
        /\ DOMAIN layout.placements = DOMAIN tiles
        /\ \A c \in DOMAIN layout.placements :
              layout.placements[c].transform =
                  IF Key(c) \in DOMAIN transforms THEN transforms[Key(c)]
                  ELSE Refined.placements[c].transform

\* The overrides have been applied in a run where refinement had matched
\* the overridden cell, another cell keeps a refined shift, and one key
\* names a cell outside the grid.
C7_Witness ==
    /\ pc = "EdgeBlend"
    /\ \E c \in DOMAIN tiles :
          /\ Key(c) \in DOMAIN transforms
          /\ Refined.placements[c].transform.confidence > 0
          /\ Refined.placements[c].transform # transforms[Key(c)]
    /\ \E c \in DOMAIN tiles :
          /\ Key(c) \notin DOMAIN transforms
          /\ layout.placements[c].transform.dx # 0
    /\ \E k \in DOMAIN transforms : \A c \in DOMAIN tiles : Key(c) # k

\* C8: every scale_x/scale_y the composer applies to a tile lies within
\* [1 - max_scale_percent/100, 1 + max_scale_percent/100], the scales of a
\* manual override transform included.
C8_AppliedScalesClamped ==
    \A s \in calls.resized :
        /\ s[1] = clamp_scale(s[1], settings.max_scale_percent)
        /\ s[2] = clamp_scale(s[2], settings.max_scale_percent)

\* C9: for overlap >= 0, match_seam and match_seam_vertical return dx and dy
\* with |dx| <= overlap and |dy| <= overlap whatever shift the phase
\* correlation reports, and every transform refine_layout produces has
\* |dx| <= overlap_max and |dy| <= overlap_max.
C9_OffsetsClamped ==
    pc = "ManualOverrides" =>
        /\ \A pr \in MatchPairs(tiles) : \A corr \in PhaseAnswers :
              LET h == match_seam(tiles[pr[1]], tiles[pr[2]], settings.overlap_max,
                                  settings.seam_band_px, corr)
                  v == match_seam_vertical(tiles[pr[1]], tiles[pr[2]],
                                           settings.overlap_max,
                                           settings.seam_band_px, corr)
              IN  /\ Abs(h.dx) <= settings.overlap_max * PX
                  /\ Abs(h.dy) <= settings.overlap_max * PX
                  /\ Abs(v.dx) <= settings.overlap_max * PX
                  /\ Abs(v.dy) <= settings.overlap_max * PX
        /\ \A c \in DOMAIN layout.placements :
              /\ Abs(layout.placements[c].transform.dx) <= settings.overlap_max * PX
              /\ Abs(layout.placements[c].transform.dy) <= settings.overlap_max * PX

\* Refinement has run on a reported shift larger than the overlap and has
\* produced a transform at the bound.
C9_Witness ==
    /\ pc = "ManualOverrides"
    /\ settings.overlap_max > 0
    /\ settings.refine_iterations > 0
    /\ Abs(phase.left.dx) > settings.overlap_max * PX
    /\ \E c \in DOMAIN layout.placements :
          /\ layout.placements[c].transform.dx = -(settings.overlap_max * PX)
          /\ layout.placements[c].transform.dy = settings.overlap_max * PX

(***************************************************************************)
(* estimate_angle and preprocess_tile on their own: every angle            *)
(* cv2.minAreaRect can report, in half degrees, against every max_angle    *)
(* up to MaxAngleHalves half degrees.                                      *)
(***************************************************************************)
RectRange == 90
MaxAngleHalves == 15

RectAngles == {a * (DEG \div 2) : a \in -(2 * RectRange) .. (2 * RectRange)}
MaxAngles == {a * (DEG \div 2) : a \in 0 .. MaxAngleHalves}

InitAngle ==
    /\ pc = "estimate_angle"
    /\ cancelFlag = FALSE
    /\ settings \in {[BaseSettings EXCEPT !.max_angle = m] : m \in MaxAngles}
    /\ mode = "restoration"
    /\ transforms = <<>>
    /\ images = <<>>
    /\ phase = [left |-> [dx |-> 0, dy |-> 0, response |-> 0],
                top |-> [dx |-> 0, dy |-> 0, response |-> 0]]
    /\ tiles_info = <<>>
    /\ tiles = <<>>
    /\ idx = 1
    /\ layout = NoLayout
    /\ canvas = <<>>
    /\ occupancy = {}
    /\ gap_mask = {}
    /\ signals = NoSignals
    /\ stages = <<>>
    /\ calls = NoCalls
    /\ probe \in {[image |-> [KindA EXCEPT !.contours = c, !.rect = r],
                   called |-> FALSE, angle |-> 0, tile |-> <<>>] :
                     c \in BOOLEAN, r \in RectAngles}

EstimateAngle ==
    /\ pc = "estimate_angle"
    /\ ~probe.called
    /\ probe' = [probe EXCEPT
          !.called = TRUE,
          !.angle = estimate_angle([contours |-> probe.image.contours,
                                    rect |-> probe.image.rect], settings.max_angle),
          !.tile = preprocess_tile(<<1, 1>>, probe.image, settings)]
    /\ pc' = "estimated"
    /\ UNCHANGED <<cancelFlag, settings, inputs, tiles_info, tiles, idx, layout,
                   canvas, occupancy, gap_mask, signals, stages, calls>>

NextAngle == EstimateAngle

SpecAngle == InitAngle /\ [][NextAngle]_vars

\* C10: for every mask and every max_angle >= 0, the angle estimate_angle
\* returns, and so the angle_deg of the tile preprocess_tile builds, is at
\* most max_angle in absolute value, and is 0 when the mask has no content
\* contour.
C10_AngleBounded ==
    pc = "estimated" =>
        /\ Abs(probe.angle) <= settings.max_angle
        /\ Abs(probe.tile.angle_deg) <= settings.max_angle
        /\ probe.tile.angle_deg = probe.angle
        /\ ~probe.image.contours => probe.angle = 0

\* estimate_angle has normalised an angle below -45 degrees and clamped the
\* result to max_angle.
C10_Witness ==
    /\ pc = "estimated"
    /\ probe.image.contours
    /\ probe.image.rect < -45 * DEG
    /\ probe.image.rect + 90 * DEG > settings.max_angle
    /\ probe.angle = settings.max_angle
    /\ settings.max_angle > 0

PollSites == {"Preprocessing", "PhotometricNormalize"}

\* A step of the worker from a poll: with the flag set it returns and
\* touches nothing, otherwise it enters the body of the iteration.
PollHonoursCancel ==
    pc \in PollSites /\ pc' # pc =>
        IF cancelFlag
        THEN /\ pc' = "cancelled"
             /\ tiles' = tiles /\ idx' = idx /\ signals' = signals
             /\ layout' = layout /\ canvas' = canvas
        ELSE pc' \in InFlight

\* The run returns on cancellation from a poll only.
CancelledOnlyAtPoll ==
    pc' = "cancelled" /\ pc # "cancelled" => pc \in PollSites /\ cancelFlag

\* The body of an iteration runs to its end whatever the flag is.
InFlightCompletes ==
    pc \in InFlight /\ pc' # pc =>
        /\ pc' # "cancelled"
        /\ pc = "PreprocessingTile" =>
              \/ pc' = "failed"
              \/ /\ tiles_info[idx] \in DOMAIN tiles'
                 /\ signals'.progress = (idx * 20) \div Len(tiles_info)
        /\ pc = "PhotometricNormalizeTile" =>
              \/ idx' = idx + 1 /\ pc' = "PhotometricNormalize"
              \/ pc' = "LayoutInitial"

CancelledIsSilent ==
    pc = "cancelled" =>
        /\ signals.finished = 0 /\ signals.failed = 0
        /\ signals.preview = <<>> /\ signals.tiff = <<>>
        /\ layout = NoLayout /\ canvas = <<>>
        /\ \A i \in 1 .. Len(stages) :
              stages[i] \in {"Loading", "Preprocessing", "PhotometricNormalize"}

\* C11: cancellation is honoured only at the poll at the top of a per-tile
\* iteration: with the flag set the run returns at once, processes neither
\* that tile nor any later stage, emits neither finished nor failed nor
\* preview_ready and writes no output; a tile whose processing has started
\* when cancel() is called is completed first.
C11_CancelAtPollOnly ==
    /\ [][PollHonoursCancel /\ CancelledOnlyAtPoll /\ InFlightCompletes]_vars
    /\ []CancelledIsSilent

\* A run cancelled between two tiles: some tiles are preprocessed, the
\* others never are.
C11_Witness ==
    /\ pc = "cancelled"
    /\ DOMAIN tiles # {}
    /\ Cardinality(DOMAIN tiles) < Len(tiles_info)

FailedIsFinal ==
    /\ pc = "failed" =>
          /\ signals.failed = 1
          /\ signals.finished = 0
          /\ signals.tiff = <<>>
    /\ signals.failed > 0 => pc = "failed"
    /\ pc = "failed" /\ tiles_info = <<>> => stages = <<"Loading">>

\* C12: any failure during a run, the empty grid included, aborts the run:
\* no later stage executes, the failed signal is emitted exactly once,
\* finished is never emitted and no TIFF is written.
C12_FailureAborts == FailedIsFinal

\* The cells inside the extent of the tile files that have no file.
Absent ==
    {c \in Cells : /\ c \notin DOMAIN images
                   /\ \E d \in DOMAIN images : c[1] <= d[1]
                   /\ \E d \in DOMAIN images : c[2] <= d[2]}

MissingReports == SelectSeq(signals.log, LAMBDA msg : msg[1] = "Missing tiles")

IdentityTransforms ==
    \A c \in DOMAIN layout.placements :
        LET tr == layout.placements[c].transform
        IN  tr.dx = 0 /\ tr.dy = 0 /\ tr.scale_x = SCALE_ONE /\ tr.scale_y = SCALE_ONE

\* The canvas rectangle of grid cell m.
CellRect(m) ==
    LET some == CHOOSE c \in DOMAIN layout.placements : TRUE
        cell_w == layout.placements[some].tile_w
        cell_h == layout.placements[some].tile_h
    IN  (((m[2] - 1) * cell_w) .. (m[2] * cell_w - 1))
            \X (((m[1] - 1) * cell_h) .. (m[1] * cell_h - 1))

\* C13: the missing-tiles log lists exactly the cells (x, y) with
\* 1 <= x <= max_x and 1 <= y <= max_y that have no tile, and nothing is
\* logged when there are none; no tile and no placement is made for a
\* missing cell; the run goes on, and with identity transforms the canvas
\* rectangle of every missing cell has zero occupancy after composition.
C13_MissingReported ==
    /\ tiles_info # <<>> =>
          /\ Len(MissingReports) = IF Absent = {} THEN 0 ELSE 1
          /\ Absent # {} =>
                /\ Range(MissingReports[1][2]) = Absent
                /\ Len(MissingReports[1][2]) = Cardinality(Absent)
          /\ pc = "failed" => Len(stages) > 1
    /\ DOMAIN tiles \subseteq DOMAIN images
    /\ DOMAIN layout.placements \subseteq DOMAIN images
    /\ pc = "GapRepairUniversal" /\ IdentityTransforms =>
          \A m \in Absent : /\ CellRect(m) \subseteq DOMAIN canvas
                            /\ CellRect(m) \cap occupancy = {}

\* A grid with several missing cells has been reported and composed with
\* identity transforms.
C13_Witness ==
    /\ pc = "GapRepairUniversal"
    /\ IdentityTransforms
    /\ Cardinality(Absent) > 1
    /\ occupancy # {}

(***************************************************************************)
(* core/io.py, save_transforms and load_transforms on their own.  The file *)
(* is None when absent, else the JSON object it holds: for every name the  *)
(* sequence of <<field, number>> pairs of the record, a number being the   *)
(* decimal text float.__repr__ writes: sign, whole part, fraction.         *)
(***************************************************************************)
TransformFields == <<"dx", "dy", "scale_x", "scale_y", "angle_deg", "confidence">>

\* The fixed-point unit a field is held in.
FieldUnit(field) ==
    IF field \in {"dx", "dy"} THEN PX
    ELSE IF field \in {"scale_x", "scale_y"} THEN SCALE_ONE
    ELSE IF field = "angle_deg" THEN DEG
    ELSE RESP_ONE

\* A number that keeps one digit of its fraction only.
FloatRepr_OneDigit(v, unit) ==
    [neg |-> v < 0, whole |-> Abs(v) \div unit,
     frac |-> ((Abs(v) % unit) \div (unit \div 10)) * (unit \div 10)]

\* json.dumps of a float: the shortest decimal text that reads back as it.
FloatRepr(v, unit) == [neg |-> v < 0, whole |-> Abs(v) \div unit, frac |-> Abs(v) % unit]

\* json.loads of that text.
FloatParse(r, unit) == (IF r.neg THEN -1 ELSE 1) * (r.whole * unit + r.frac)

NoFile == [exists |-> FALSE, payload |-> <<>>]

\* transform.__dict__ written by json.dumps: the fields in the order of
\* their declaration.
DumpRecord(transform) ==
    [i \in 1 .. Len(TransformFields) |->
        <<TransformFields[i],
          FloatRepr(transform[TransformFields[i]], FieldUnit(TransformFields[i]))>>]

save_transforms(trs) ==
    [exists |-> TRUE, payload |-> [name \in DOMAIN trs |-> DumpRecord(trs[name])]]

\* TileTransform(**data): the value of a field is the one the object gives
\* it, its default when the object has none.
LoadRecord(pairs) ==
    [field \in Range(TransformFields) |->
        IF \E i \in DOMAIN pairs : pairs[i][1] = field
        THEN LET i == CHOOSE j \in DOMAIN pairs : pairs[j][1] = field
             IN  FloatParse(pairs[i][2], FieldUnit(field))
        ELSE TileTransform[field]]

load_transforms(file) ==
    IF ~file.exists THEN <<>>
    ELSE [name \in DOMAIN file.payload |-> LoadRecord(file.payload[name])]

\* The JSON object of a record as a mapping from field to number.
JsonObject(pairs) == {<<pairs[i][1], pairs[i][2]>> : i \in DOMAIN pairs}

\* The stored mapping of a file.
Stored(file) ==
    IF ~file.exists THEN <<>>
    ELSE [name \in DOMAIN file.payload |-> JsonObject(file.payload[name])]

Reverse(sq) == [i \in 1 .. Len(sq) |-> sq[Len(sq) + 1 - i]]

PersistKeys == {"1,1", "1,2", "9,9"}

FineTransform ==
    [dx |-> -6, dy |-> 14, scale_x |-> SCALE_ONE + 5, scale_y |-> SCALE_ONE - 5,
     angle_deg |-> -5, confidence |-> 8]

PersistTransforms == {TileTransform, ManualShift, ManualScale, FineTransform}

PersistMappings == UNION {[ks -> PersistTransforms] : ks \in SUBSET PersistKeys}

\* Files as save_transforms writes them, and the same objects with the
\* fields of every record in the opposite order.
PersistFiles ==
    {save_transforms(trs) : trs \in PersistMappings}
    \cup {[exists |-> TRUE,
           payload |-> [name \in DOMAIN trs |-> Reverse(DumpRecord(trs[name]))]] :
              trs \in PersistMappings}

InitPersist ==
    /\ pc = "transforms"
    /\ cancelFlag = FALSE
    /\ settings = BaseSettings
    /\ mode = "restoration"
    /\ transforms = <<>>
    /\ images = <<>>
    /\ phase = [left |-> [dx |-> 0, dy |-> 0, response |-> 0],
                top |-> [dx |-> 0, dy |-> 0, response |-> 0]]
    /\ tiles_info = <<>>
    /\ tiles = <<>>
    /\ idx = 1
    /\ layout = NoLayout
    /\ canvas = <<>>
    /\ occupancy = {}
    /\ gap_mask = {}
    /\ signals = NoSignals
    /\ stages = <<>>
    /\ calls = NoCalls
    /\ \/ \E trs \in PersistMappings :
             probe = [first |-> "memory", memory |-> trs, file |-> NoFile,
                      start_memory |-> trs, start_file |-> NoFile, done |-> <<>>]
       \/ \E f \in PersistFiles :
             probe = [first |-> "file", memory |-> <<>>, file |-> f,
                      start_memory |-> <<>>, start_file |-> f, done |-> <<>>]

\* Line 332 of gui.py: the transforms in memory are written to the file.
SaveTransforms ==
    /\ pc = "transforms"
    /\ \/ probe.first = "memory" /\ probe.done = <<>>
       \/ probe.first = "file" /\ probe.done = <<"load">>
    /\ probe' = [probe EXCEPT !.file = save_transforms(probe.memory),
                              !.done = Append(@, "save")]
    /\ UNCHANGED <<pc, cancelFlag, settings, inputs, tiles_info, tiles, idx, layout,
                   canvas, occupancy, gap_mask, signals, stages, calls>>

\* The file is read back into memory.
LoadTransforms ==
    /\ pc = "transforms"
    /\ \/ probe.first = "file" /\ probe.done = <<>>
       \/ probe.first = "memory" /\ probe.done = <<"save">>
    /\ probe' = [probe EXCEPT !.memory = load_transforms(probe.file),
                              !.done = Append(@, "load")]
    /\ UNCHANGED <<pc, cancelFlag, settings, inputs, tiles_info, tiles, idx, layout,
                   canvas, occupancy, gap_mask, signals, stages, calls>>

NextPersist == SaveTransforms \/ LoadTransforms

SpecPersist == InitPersist /\ [][NextPersist]_vars

ComposeReturned ==
    /\ stages # <<>>
    /\ stages[Len(stages)] = "Compose"
    /\ pc \in {"GapRepairUniversal", "failed"}

\* The rectangle the tile is drawn at, origin plus truncated translation and
\* scaled size, has no pixel in common with the canvas.
EntirelyOutside(p, cw, ch) ==
    \/ p.x0u + p.w <= 0 \/ p.y0u + p.h <= 0
    \/ p.x0u >= cw \/ p.y0u >= ch

\* C15: a tile whose placement lies entirely outside the canvas, beyond the
\* left/top edge or beyond the right/bottom edge, contributes nothing:
\* composing it raises no error, writes no canvas pixel and marks no
\* occupancy pixel.
C15_OutsideContributesNothing ==
    ComposeReturned =>
        \A c \in DOMAIN tiles :
            LET p == Placement(tiles[c], layout.placements[c],
                               layout.canvas_size[1], layout.canvas_size[2])
            IN  EntirelyOutside(p, layout.canvas_size[1], layout.canvas_size[2]) =>
                    /\ pc # "failed"
                    /\ \A px \in DOMAIN canvas : canvas[px].cell # c
                    /\ OccupiedBy(p) = {}

SkipLogged ==
    \E i \in 1 .. Len(signals.log) :
        signals.log[i] = <<"Seam fill skipped: area > 0.5% of canvas">>

\* C16: when seam fill is enabled and the candidate fill mask is not empty
\* and covers 0.5% of the canvas or more, the seam fill is skipped, the
\* 'Seam fill skipped' event is logged before the final gap check, and the
\* run goes on to its output.
C16_SkipIsLogged ==
    \A i \in 1 .. Len(calls.seam_mask) :
        LET mask == calls.seam_mask[i].mask
        IN  /\ settings.seam_fill_enabled
            /\ mask # {}
            /\ 1000 * Cardinality(mask) >= 5 * Cardinality(DOMAIN canvas)
            => /\ calls.seam_fill = <<>>
               /\ SkipLogged
               /\ pc \in {"FinalCheck", "Done", "finished", "failed"}

\* The squared distance of two pixels.
Dist2(a, b) == (a[1] - b[1]) * (a[1] - b[1]) + (a[2] - b[2]) * (a[2] - b[2])

\* C17: for seam_fill_max_px > 0 the mask _limit_seam_mask returns is a
\* subset of the gap mask that holds a gap pixel only if its distance to
\* the nearest non-gap pixel is at most seam_fill_max_px.
C17_LimitedToNearContent ==
    \A i \in 1 .. Len(calls.seam_mask) :
        settings.seam_fill_max_px > 0 =>
            /\ calls.seam_mask[i].limited \subseteq gap_mask
            /\ \A px \in calls.seam_mask[i].limited :
                  \E q \in DOMAIN canvas \ gap_mask :
                      Dist2(px, q) <= settings.seam_fill_max_px * settings.seam_fill_max_px

ProtectedKept ==
    pc = "GapRepairSeamFill" /\ pc' # pc /\ settings.protect_lines =>
        /\ Len(calls'.seam_mask) = 1
        /\ calls'.seam_mask[1].mask \cap calls'.seam_mask[1].protect = {}
        /\ \A px \in DOMAIN canvas :
              canvas'[px] # canvas[px] =>
                  /\ px \in calls'.seam_mask[1].mask
                  /\ px \notin calls'.seam_mask[1].protect

\* C18: with protect_lines on, the seam-fill step alters no canvas pixel of
\* the protect mask: for each inpaint method every pixel seam_fill changes
\* lies in the fill mask, which holds no protected pixel.
C18_ProtectedUntouched == [][ProtectedKept]_vars

\* A reported shift held to +-overlap_max on one axis.
Held(v) ==
    IF v > settings.overlap_max * PX THEN settings.overlap_max * PX
    ELSE IF v < -(settings.overlap_max * PX) THEN -(settings.overlap_max * PX)
    ELSE v

HasLeft(c) == <<c[1], c[2] - 1>> \in DOMAIN tiles
HasTop(c) == <<c[1] - 1, c[2]>> \in DOMAIN tiles

\* The seam whose result tile c adopts: the one of lower error, the left
\* one when the errors are equal.
Adopted(c) ==
    IF HasLeft(c) /\ HasTop(c)
    THEN IF RESP_ONE - phase.left.response <= RESP_ONE - phase.top.response
         THEN phase.left ELSE phase.top
    ELSE IF HasLeft(c) THEN phase.left
    ELSE phase.top

\* C19: in a refinement pass a tile with a left and/or a top neighbour takes
\* (dx, dy) and the confidence of the match result of lowest error among
\* those available, the left one on a tie, with scale 1.0 and its own
\* deskew angle; a tile with neither neighbour keeps its transform.
C19_LowestErrorAdopted ==
    pc = "ManualOverrides" =>
        \A c \in DOMAIN tiles :
            layout.placements[c].transform =
                IF settings.refine_iterations > 0 /\ (HasLeft(c) \/ HasTop(c))
                THEN [dx |-> Held(Adopted(c).dx), dy |-> Held(Adopted(c).dy),
                      scale_x |-> SCALE_ONE, scale_y |-> SCALE_ONE,
                      angle_deg |-> tiles[c].angle_deg,
                      confidence |-> Adopted(c).response]
                ELSE initial_layout(tiles).placements[c].transform

\* Refinement has run on a tile whose left and top results have the same
\* error and different shifts, beside a tile without neighbours.
C19_Witness ==
    /\ pc = "ManualOverrides"
    /\ settings.refine_iterations > 0
    /\ settings.overlap_max > 0
    /\ phase.left.response = phase.top.response
    /\ phase.left.dx # phase.top.dx
    /\ \E c \in DOMAIN tiles :
          /\ HasLeft(c) /\ HasTop(c)
          /\ layout.placements[c].transform.dx = Held(phase.left.dx)
          /\ tiles[c].angle_deg # 0
    /\ \E c \in DOMAIN tiles :
          /\ ~HasLeft(c) /\ ~HasTop(c)
          /\ layout.placements[c].transform = TileTransform

(***************************************************************************)
(* compute_mask on its own.  A mask is 255 on background and 0 on content; *)
(* an image is [pixels, paper, bright]: how many pixels it has, how many   *)
(* of them _lab_paper_mask sets to 255 and how many _rgb_threshold_mask    *)
(* does.  The result names the policy whose mask is kept and the number of *)
(* its 255 pixels, as they stand before the morphological close.           *)
(***************************************************************************)
MaxPixels == 3000

\* mask.mean() < 0.1 for a mask of n pixels of which `set` are 255 (the
\* mean of an empty mask is nan, and nan < 0.1 is False).
MaskMeanBelowTenth(set, n) == n > 0 /\ 10 * 255 * set < n

_lab_paper_mask(image) == [policy |-> "lab_paper", background |-> image.paper]

_rgb_threshold_mask(image) ==
    [policy |-> "rgb_threshold", background |-> image.bright]

compute_mask(image, bg_mode) ==
    IF bg_mode = "lab_paper"
    THEN LET mask == _lab_paper_mask(image)
         IN  IF MaskMeanBelowTenth(mask.background, image.pixels)
             THEN _rgb_threshold_mask(image)
             ELSE mask
    ELSE _rgb_threshold_mask(image)

InitMask ==
    /\ pc = "compute_mask"
    /\ cancelFlag = FALSE
    /\ settings = BaseSettings
    /\ mode = "restoration"
    /\ transforms = <<>>
    /\ images = <<>>
    /\ phase = [left |-> [dx |-> 0, dy |-> 0, response |-> 0],
                top |-> [dx |-> 0, dy |-> 0, response |-> 0]]
    /\ tiles_info = <<>>
    /\ tiles = <<>>
    /\ idx = 1
    /\ layout = NoLayout
    /\ canvas = <<>>
    /\ occupancy = {}
    /\ gap_mask = {}
    /\ signals = NoSignals
    /\ stages = <<>>
    /\ calls = NoCalls
    /\ \E n \in {4, MaxPixels}, b \in {0, 4}, m \in {"lab_paper", "rgb"} :
          \E p \in 0 .. n :
             probe = [image |-> [pixels |-> n, paper |-> p, bright |-> b],
                      bg_mode |-> m,
                      mask |-> [policy |-> "none", background |-> 0]]

\* Lines 26-35 of preprocess.py, applied to the drawn image.
ComputeMask ==
    /\ pc = "compute_mask"
    /\ probe' = [probe EXCEPT !.mask = compute_mask(probe.image, probe.bg_mode)]
    /\ pc' = "computed"
    /\ UNCHANGED <<cancelFlag, settings, inputs, tiles_info, tiles, idx, layout,
                   canvas, occupancy, gap_mask, signals, stages, calls>>

NextMask == ComputeMask

SpecMask == InitMask /\ [][NextMask]_vars

\* C20: with bg_mode = lab_paper, compute_mask falls back to the grayscale
\* threshold exactly when the primary policy flags under 0.1% of the
\* image's pixels as content (mask value 0), and keeps the primary mask
\* otherwise.
C20_FallbackUnderTenthPercent ==
    pc = "computed" /\ probe.bg_mode = "lab_paper" =>
        LET content == probe.image.pixels - probe.image.paper
        IN  probe.mask.policy = "rgb_threshold"
                <=> 1000 * content < probe.image.pixels

\* C21: when seam fill is enabled and the fill mask left by distance
\* limiting and protect-mask subtraction has no set pixel (also when
\* composition left no gap at all), the seam-fill step is skipped:
\* seam_fill is not invoked on it.
EmptyFillMasks == {i \in DOMAIN calls.seam_mask : calls.seam_mask[i].mask = {}}

C21_EmptyMaskSkips ==
    settings.seam_fill_enabled /\ EmptyFillMasks # {} => calls.seam_fill = <<>>

\* Python's round() of a float: to the nearest integer, halves to even (v
\* in tenths).
PyRound(v) == RoundDiv(v, PX)

\* C22: the composer places each tile at layout origin plus the translation
\* rounded to the nearest integer, x0 = origin_x + round(dx) and
\* y0 = origin_y + round(dy), for every fractional dx, dy of either sign:
\* every canvas pixel a tile wrote holds the tile pixel that this origin
\* puts there (placements with an origin left of or above the canvas set
\* aside).
C22_RoundedPlacement ==
    pc = "GapRepairUniversal" /\ canvas # <<>> =>
        \A px \in DOMAIN canvas :
            FromTile(canvas[px]) =>
                LET c == canvas[px].cell
                    pl == layout.placements[c]
                    p == Placement(tiles[c], pl, layout.canvas_size[1],
                                   layout.canvas_size[2])
                    xr == pl.origin_x + PyRound(pl.transform.dx)
                    yr == pl.origin_y + PyRound(pl.transform.dy)
                IN  xr >= 0 /\ yr >= 0 /\ p.x0u >= 0 /\ p.y0u >= 0 =>
                        /\ px[1] - canvas[px].ix = xr
                        /\ px[2] - canvas[px].iy = yr

(***************************************************************************)
(* core/blend.py and StitchWorker._blend_neighbors with the pixels. An     *)
(* image is [w, h, image]: image maps <<column, row>> to one channel       *)
(* value.  The ramp is np.linspace(0, 1, overlap); cv2.GaussianBlur is     *)
(* given a kernel of extent 1 along the ramp and an array of extent 1      *)
(* across it, so it returns the ramp as it is.                             *)
(***************************************************************************)
\* (left * (1 - alpha) + right * alpha).astype(np.uint8) at ramp index j:
\* alpha = j / (overlap - 1), and 0 when overlap = 1.
BlendedValue(lv, rv, j, overlap) ==
    IF overlap = 1 THEN lv
    ELSE (lv * (overlap - 1 - j) + rv * j) \div (overlap - 1)

feather_blend(left, right, overlap) ==
    IF overlap <= 0 THEN [raises |-> FALSE, first |-> left, second |-> right]
    ELSE IF feather_blend_raises(left, right, overlap)
    THEN [raises |-> TRUE, first |-> left, second |-> right]
    ELSE LET h == Min(left.h, right.h)
             blended == [px \in Pixels(overlap, h) |->
                            BlendedValue(left.image[<<left.w - overlap + px[1], px[2]>>],
                                         right.image[px], px[1], overlap)]
         IN  [raises |-> FALSE,
              first |-> [left EXCEPT !.image =
                            [px \in DOMAIN left.image |->
                                IF px[2] < h /\ px[1] >= left.w - overlap
                                THEN blended[<<px[1] - (left.w - overlap), px[2]>>]
                                ELSE left.image[px]]],
              second |-> [right EXCEPT !.image =
                            [px \in DOMAIN right.image |->
                                IF px[2] < h /\ px[1] < overlap THEN blended[px]
                                ELSE right.image[px]]]]

feather_blend_vertical(top, bottom, overlap) ==
    IF overlap <= 0 THEN [raises |-> FALSE, first |-> top, second |-> bottom]
    ELSE IF feather_blend_vertical_raises(top, bottom, overlap)
    THEN [raises |-> TRUE, first |-> top, second |-> bottom]
    ELSE LET w == Min(top.w, bottom.w)
             blended == [px \in Pixels(w, overlap) |->
                            BlendedValue(top.image[<<px[1], top.h - overlap + px[2]>>],
                                         bottom.image[px], px[2], overlap)]
         IN  [raises |-> FALSE,
              first |-> [top EXCEPT !.image =
                            [px \in DOMAIN top.image |->
                                IF px[1] < w /\ px[2] >= top.h - overlap
                                THEN blended[<<px[1], px[2] - (top.h - overlap)>>]
                                ELSE top.image[px]]],
              second |-> [bottom EXCEPT !.image =
                            [px \in DOMAIN bottom.image |->
                                IF px[1] < w /\ px[2] < overlap THEN blended[px]
                                ELSE bottom.image[px]]]]

\* One turn of the loop of _blend_neighbors: the tile at coord is blended
\* with its left neighbour, then with its top neighbour; st is
\* [raises, tiles].
BlendTile(st, coord, overlap) ==
    LET left_coord == grid_neighbors(coord).left
        top_coord == grid_neighbors(coord).top
        a == IF left_coord \in DOMAIN st.tiles
             THEN LET r == feather_blend(st.tiles[left_coord], st.tiles[coord], overlap)
                  IN  [raises |-> r.raises,
                       tiles |-> [st.tiles EXCEPT ![left_coord] = r.first,
                                                  ![coord] = r.second]]
             ELSE st
    IN  IF a.raises \/ top_coord \notin DOMAIN a.tiles THEN a
        ELSE LET r == feather_blend_vertical(a.tiles[top_coord], a.tiles[coord], overlap)
             IN  [raises |-> r.raises,
                  tiles |-> [a.tiles EXCEPT ![top_coord] = r.first,
                                            ![coord] = r.second]]

RECURSIVE BlendFrom(_, _, _, _)
BlendFrom(st, order, i, overlap) ==
    IF i > Len(order) \/ st.raises THEN st
    ELSE BlendFrom(BlendTile(st, order[i], overlap), order, i + 1, overlap)

\* _blend_neighbors on the tiles in their loading order.
blend_neighbors_images(ts, st) ==
    BlendFrom([raises |-> FALSE, tiles |-> ts], SortedCoords(DOMAIN ts), 1,
              Min(st.overlap_max, st.feather_px))

\* Tile contents: one shade everywhere, or a shade of its own per pixel.
Flat(c, px) == 200
Graded(c, px) == (50 * c[1] + 20 * c[2] + 5 * px[1] + px[2]) % 256

BlendImages ==
    {[c \in ts |-> [w |-> pat[c].w, h |-> pat[c].h,
                    image |-> [px \in Pixels(pat[c].w, pat[c].h) |->
                                  IF graded THEN Graded(c, px) ELSE Flat(c, px)]]] :
        ts \in TileSets, pat \in {PatUniform, PatChecker}, graded \in BOOLEAN}

InitBlend ==
    /\ pc = "blend_neighbors"
    /\ cancelFlag = FALSE
    /\ \E o \in 0 .. MaxOverlap, f \in 0 .. MaxOverlap :
          settings = [BaseSettings EXCEPT !.overlap_max = o, !.feather_px = f]
    /\ mode = "restoration"
    /\ transforms = <<>>
    /\ images = <<>>
    /\ phase = [left |-> [dx |-> 0, dy |-> 0, response |-> 0],
                top |-> [dx |-> 0, dy |-> 0, response |-> 0]]
    /\ tiles_info = <<>>
    /\ tiles = <<>>
    /\ idx = 1
    /\ layout = NoLayout
    /\ canvas = <<>>
    /\ occupancy = {}
    /\ gap_mask = {}
    /\ signals = NoSignals
    /\ stages = <<>>
    /\ calls = NoCalls
    /\ \E ts \in BlendImages : probe = [tiles |-> ts, raises |-> FALSE]

\* Lines 141-153 of worker.py, on the drawn tiles.
BlendNeighbors ==
    /\ pc = "blend_neighbors"
    /\ probe' = blend_neighbors_images(probe.tiles, settings)
    /\ pc' = "blended"
    /\ UNCHANGED <<cancelFlag, settings, inputs, tiles_info, tiles, idx, layout,
                   canvas, occupancy, gap_mask, signals, stages, calls>>

NextBlend == BlendNeighbors

SpecBlend == InitBlend /\ [][NextBlend]_vars

\* The two strips of a blended pair, as they stand: the left tile's
\* rightmost columns against the right tile's leftmost ones over the common
\* rows, the upper tile's bottom rows against the lower tile's top ones over
\* the common columns.
StripsAgree(ts, pr, overlap) ==
    LET a == ts[pr[1]]
        b == ts[pr[2]]
    IN  IF pr[3] = "left"
        THEN \A px \in Pixels(overlap, Min(a.h, b.h)) :
                a.image[<<a.w - overlap + px[1], px[2]>>] = b.image[px]
        ELSE \A px \in Pixels(Min(a.w, b.w), overlap) :
                a.image[<<px[1], a.h - overlap + px[2]>>] = b.image[px]

\* C23: when the edge-blend stage has finished (0 < overlap <= tile
\* dimensions), both neighbours of every adjacent pair hold identical
\* content in their shared strip, also in grids where a tile takes part in
\* both a horizontal and a vertical blend.
C23_SharedStripsIdentical ==
    LET overlap == Min(settings.overlap_max, settings.feather_px)
    IN  pc = "blended" /\ ~probe.raises /\ overlap > 0 =>
            \A pr \in BlendPairs(probe.tiles) : StripsAgree(probe.tiles, pr, overlap)

\* The angle in (-45, 45] degrees that differs from r by a multiple of 90
\* degrees, for r in [-90, 90] degrees (tenths of a degree).
QuarterTurnNormal(r) ==
    IF r <= -45 * DEG THEN r + 90 * DEG
    ELSE IF r > 45 * DEG THEN r - 90 * DEG
    ELSE r

\* C24: estimate_angle normalizes the minimum-area-rectangle angle into
\* (-45, 45] degrees before clamping to +/- max_angle, for every rectangle
\* angle in [-90, 90]; a rectangle angle above 45 degrees is mapped to that
\* angle - 90, so its clamped result is negative, not +max_angle.
C24_NormalizedBeforeClamp ==
    pc = "estimated" /\ probe.image.contours =>
        LET angle == QuarterTurnNormal(probe.image.rect)
        IN  probe.angle = Max(-settings.max_angle, Min(settings.max_angle, angle))

\* C25: clipping in the composer preserves pixel correspondence: every
\* canvas pixel (cx, cy) a tile wrote holds the tile's pixel
\* (cx - x0, cy - y0), (x0, y0) being the unclipped placement origin, also
\* for placements with a negative origin.
C25_ClippingKeepsCorrespondence ==
    pc = "GapRepairUniversal" /\ canvas # <<>> =>
        \A px \in DOMAIN canvas :
            FromTile(canvas[px]) =>
                LET c == canvas[px].cell
                    p == Placement(tiles[c], layout.placements[c],
                                   layout.canvas_size[1], layout.canvas_size[2])
                IN  /\ canvas[px].ix = px[1] - p.x0u
                    /\ canvas[px].iy = px[2] - p.y0u

\* What refine_layout computes from the initial layout in `passes` passes.
RefinedIn(passes) ==
    refine_layout(tiles, initial_layout(tiles), settings.overlap_max,
                  settings.seam_band_px, passes, phase)

\* C26: refinement passes are idempotent: the transforms after k passes
\* equal the transforms after one pass for every k >= 1, and with 0 passes
\* every transform stays the identity.
C26_RefinementIdempotent ==
    pc = "ManualOverrides" =>
        IF settings.refine_iterations >= 1
        THEN layout = RefinedIn(1)
        ELSE /\ layout = initial_layout(tiles)
             /\ \A c \in DOMAIN layout.placements :
                   layout.placements[c].transform = TileTransform

\* refine_layout has run more than one pass and left a tile with a shift.
C26_Witness ==
    /\ pc = "ManualOverrides"
    /\ settings.refine_iterations >= 2
    /\ \E c \in DOMAIN layout.placements :
          /\ HasLeft(c) /\ HasTop(c)
          /\ layout.placements[c].transform.dx # 0
          /\ layout.placements[c].transform.dy # 0

ResidualWarning == <<"Warning: residual gaps detected after fill.">>

\* C27: at the final gap check the occupancy buffer has no zero entry in
\* any run: composition left no gap or the universal repair marked every
\* gap pixel, so the residual-gaps warning is never emitted and the gap
\* heatmap passed to preview_ready is always empty, whatever the seam-fill
\* settings or outcome.
C27_NoResidualGaps ==
    /\ pc \in {"GapRepairSeamFill", "FinalCheck"} => occupancy = DOMAIN canvas
    /\ \A i \in DOMAIN signals.log : signals.log[i] # ResidualWarning
    /\ \A i \in DOMAIN signals.preview : signals.preview[i] = {}
    /\ pc \in {"Done", "finished"} => Len(signals.preview) = 1

\* The final check has passed in a run where composition left a gap and
\* seam fill was enabled.
C27_Witness ==
    /\ pc = "Done"
    /\ gap_mask # {}
    /\ settings.seam_fill_enabled
    /\ calls.inpaint = 1
    /\ signals.preview = <<{}>>

\* The stages past the per-tile loops, and the body of the last iteration
\* of the normalization loop: no poll of the flag lies ahead of them.
PastLoops ==
    {StageOrder[i] : i \in StageIndex("LayoutInitial") .. Len(StageOrder)}

LastBody ==
    pc = "PhotometricNormalizeTile" /\ idx = Cardinality(DOMAIN tiles)

\* A step of the worker with the flag set and no poll ahead: the run goes
\* on to the next stage or fails on an exception; the last stage writes
\* the TIFF and, unless the debug pack raises, emits finished.
LateCancelIgnored ==
    cancelFlag /\ pc' # pc /\ (pc \in PastLoops \/ LastBody) =>
        /\ pc' # "cancelled"
        /\ cancelFlag'
        /\ LastBody => pc' = "LayoutInitial"
        /\ pc \in PastLoops => pc' \in {StageAfter(pc, settings), "failed"}
        /\ pc = "Done" =>
              /\ signals'.tiff = Append(signals.tiff, canvas)
              /\ pc' = "failed" => settings.debug_stitch
              /\ pc' = "finished" => signals'.finished = signals.finished + 1

FinishedHasOutput ==
    pc = "finished" =>
        Len(signals.tiff) = 1 /\ signals.finished = 1 /\ signals.failed = 0

\* C28: the cancel flag is polled only inside the per-tile preprocessing
\* and normalization loops: a cancel() that arrives after the last poll of
\* the normalization loop has no effect, and the run still writes the TIFF
\* and emits finished.
C28_LateCancelHasNoEffect ==
    [][LateCancelIgnored]_vars /\ []FinishedHasOutput

\* A run has finished with the flag set: cancel() arrived after the last
\* poll, and the TIFF was written and finished emitted.
C28_Witness ==
    /\ pc = "finished"
    /\ cancelFlag
    /\ Len(signals.tiff) = 1
    /\ signals.finished = 1

(***************************************************************************)
(* app/gui.py: MapRestorerWindow.start and stop around the worker thread.  *)
(* Here pc is where the current worker's run() is ("none" before the first *)
(* start), cancelFlag its _cancel, idx the poll of the per-tile loops it   *)
(* is at, and probe the window: the thread, the queued call of quit, the   *)
(* paths of the file list, and counts of what start() did.                 *)
(***************************************************************************)
MaxStarts == 3

\* A thread that is quit when its worker's run ends in any way.
QuitConnected_AnyEnd(ended) == ended \in {"finished", "failed", "cancelled"}

\* Line 280: worker.finished is the only signal connected to
\* worker_thread.quit.
QuitConnected(ended) == ended = "finished"

\* How run() leaves the thread: pc becomes `ended`, and quit is queued for
\* the thread when a signal connected to it was emitted.
RunEnds(ended) ==
    /\ pc' = ended
    /\ probe' = [probe EXCEPT !.quit = QuitConnected(ended)]

InitGui ==
    /\ pc = "none"
    /\ cancelFlag = FALSE
    /\ settings = BaseSettings
    /\ mode = "restoration"
    /\ transforms = <<>>
    /\ images = <<>>
    /\ phase = [left |-> [dx |-> 0, dy |-> 0, response |-> 0],
                top |-> [dx |-> 0, dy |-> 0, response |-> 0]]
    /\ tiles_info = <<>>
    /\ tiles = <<>>
    /\ idx = 1
    /\ layout = NoLayout
    /\ canvas = <<>>
    /\ occupancy = {}
    /\ gap_mask = {}
    /\ signals = NoSignals
    /\ stages = <<>>
    /\ calls = NoCalls
    /\ \E n \in 0 .. MaxCol :
          probe = [thread |-> "none", quit |-> FALSE, paths |-> n,
                   starts |-> 0, launched |-> 0, refused |-> 0]

\* Lines 261-281: start().
GuiStart ==
    /\ probe.starts < MaxStarts
    /\ IF probe.thread = "running"
       THEN /\ probe' = [probe EXCEPT !.starts = @ + 1, !.refused = @ + 1]
            /\ UNCHANGED <<pc, cancelFlag, idx>>
       ELSE IF probe.paths = 0
       THEN /\ probe' = [probe EXCEPT !.starts = @ + 1]
            /\ UNCHANGED <<pc, cancelFlag, idx>>
       ELSE /\ probe' = [probe EXCEPT !.starts = @ + 1, !.launched = @ + 1,
                                      !.thread = "running", !.quit = FALSE]
            /\ pc' = "poll"
            /\ cancelFlag' = FALSE
            /\ idx' = 1
    /\ UNCHANGED <<settings, inputs, tiles_info, tiles, layout, canvas, occupancy,
                   gap_mask, signals, stages, calls>>

\* Lines 283-286: stop().
GuiStop ==
    /\ pc # "none"
    /\ ~cancelFlag
    /\ cancelFlag' = TRUE
    /\ UNCHANGED <<pc, settings, inputs, tiles_info, tiles, idx, layout, canvas,
                   occupancy, gap_mask, signals, stages, calls, probe>>

\* worker.py 84-85 and 92-93: the poll at the top of an iteration of a
\* per-tile loop; run() returns when the flag is set.
WorkerPoll ==
    /\ pc = "poll"
    /\ IF cancelFlag THEN RunEnds("cancelled")
       ELSE pc' = "body" /\ probe' = probe
    /\ UNCHANGED <<cancelFlag, settings, inputs, tiles_info, tiles, idx, layout,
                   canvas, occupancy, gap_mask, signals, stages, calls>>

\* The body of an iteration: it raises, or goes on to the next poll, each
\* path being polled once in either loop, or leaves the loops.
WorkerBody ==
    /\ pc = "body"
    /\ \/ RunEnds("failed") /\ idx' = idx
       \/ /\ idx < 2 * probe.paths
          /\ pc' = "poll" /\ idx' = idx + 1 /\ probe' = probe
       \/ /\ idx = 2 * probe.paths
          /\ pc' = "past_loops" /\ idx' = idx /\ probe' = probe
    /\ UNCHANGED <<cancelFlag, settings, inputs, tiles_info, tiles, layout, canvas,
                   occupancy, gap_mask, signals, stages, calls>>

\* worker.py 99-133 and 59-63: the stages past the loops raise, or end
\* with finished.emit.
WorkerPastLoops ==
    /\ pc = "past_loops"
    /\ RunEnds("failed") \/ RunEnds("finished")
    /\ UNCHANGED <<cancelFlag, settings, inputs, tiles_info, tiles, idx, layout,
                   canvas, occupancy, gap_mask, signals, stages, calls>>

\* The queued call of QThread.quit is delivered: the thread's event loop
\* ends and isRunning() becomes False.
ThreadQuit ==
    /\ probe.quit
    /\ probe.thread = "running"
    /\ probe' = [probe EXCEPT !.quit = FALSE, !.thread = "ended"]
    /\ UNCHANGED <<pc, cancelFlag, settings, inputs, tiles_info, tiles, idx, layout,
                   canvas, occupancy, gap_mask, signals, stages, calls>>

NextGui ==
    \/ GuiStart
    \/ GuiStop
    \/ WorkerPoll
    \/ WorkerBody
    \/ WorkerPastLoops
    \/ ThreadQuit

SpecGui == InitGui /\ [][NextGui]_vars

\* The thread ends only after its worker emitted finished.
QuitOnlyOnFinished ==
    probe.thread = "running" /\ probe'.thread # "running" => pc = "finished"

\* Once a run has ended by cancellation or by failure, the thread keeps
\* running and no start() launches a worker.
StuckAfterCancelOrFailure ==
    pc \in {"cancelled", "failed"} =>
        /\ pc' = pc
        /\ probe'.thread = "running"
        /\ probe'.launched = probe.launched
        /\ probe'.starts > probe.starts => probe'.refused = probe.refused + 1

\* A start() after the thread of a finished run has ended launches a run.
StartAfterFinishedLaunches ==
    /\ pc = "finished" /\ probe.thread = "ended"
    /\ probe'.starts > probe.starts
    => /\ probe'.launched = probe.launched + 1
       /\ probe'.thread = "running"
       /\ pc' = "poll"
       /\ ~cancelFlag'

====
